---- MODULE Spec2Model ----
(***************************************************************************)
(* Model of the progress ledger (createProgressTracker) of nvc-ragbot.     *)
(*                                                                         *)
(* JavaScript objects are modelled with the sharing the code creates:      *)
(* `{ ...DEFAULT_PROGRESS_DATA }` is a shallow copy, so the record it      *)
(* yields holds REFERENCES to the two arrays of DEFAULT_PROGRESS_DATA.     *)
(* Arrays therefore live in two heaps indexed by owner: owner 0 is         *)
(* DEFAULT_PROGRESS_DATA, owner i > 0 is the object tracker i got from     *)
(* JSON.parse.  Strings with a structure the code relies on (JSON text,    *)
(* ISO dates) are modelled by that structure.                              *)
(*                                                                         *)
(* Beside the ledger the module holds the practice-mode detector and the   *)
(* scenario filter (pure functions), the dev-server script (its PID file,  *)
(* the processes it spawns, its invocations step by step), the chat POST   *)
(* handler (one request, await by await) and the useProgress hook.         *)
(***************************************************************************)
EXTENDS Integers, Sequences, FiniteSets, TLC

VARIABLES
    now,            \* the system clock, in hours since the start of day 0 (UTC)
    zone,           \* the local time zone: its one DST change in the window
    localStorage,   \* the host's localStorage (or its absence)
    attemptsHeap,   \* owner -> contents of that object's `attempts` array
    completedHeap,  \* owner -> contents of that object's `completedScenarios` array
    data,           \* tracker -> the closure variable `data` of that instance
    recorded,       \* how many attempts this run of the process has recorded
    last,           \* the call that produced this state, and what it saw
    call,           \* the call of a module-level function: its arguments and,
                    \* once it has returned, its result
    pidFile,        \* the contents of $PID_FILE of the dev-server script, if it exists
    procs,          \* pid -> state of the server processes the script has spawned
    shell,          \* terminal -> the invocation of the script running in it
    request,        \* the chat request the POST handler is serving
    hook            \* the state of one component's useProgress() hook

vars == <<now, zone, localStorage, attemptsHeap, completedHeap, data, recorded, last, call,
          pidFile, procs, shell, request, hook>>

\* what the ledger's operations never touch, the hook's state apart
outsideLedger == <<call, pidFile, procs, shell, request>>

(* ------------------------------ bounds --------------------------------- *)

\* at most this many attempts are recorded in one run of the process
MaxAttempts == 2
\* the clock stays within days 0 .. MaxDay
MaxDay == 2

\* the tracker instances a process may hold at the same time
Trackers == {1, 2}
\* owner 0 of an array is DEFAULT_PROGRESS_DATA, owner i the object of tracker i
DefaultOwner == 0
Owners == {DefaultOwner} \cup Trackers

(* --------------------------- clock and dates --------------------------- *)

HoursPerDay == 24

\* Time zones: [at |-> UTC hour of the zone's DST change, before, after |-> the
\* local offset from UTC in hours, edge |-> the hours, beside noon, at which the
\* clock is read].  A zone without DST, one that springs forward and one that
\* falls back at 01:00 UTC of day 1 (as Europe/London does).  The edge hour is
\* the one in which moving the local wall clock back one day crosses the change:
\* the last hour of day 1 after a spring forward, the first hour of day 2 after
\* a fall back.
NoDst == [at |-> 0, before |-> 0, after |-> 0, edge |-> {}]
SpringForward ==
    [at |-> HoursPerDay + 1, before |-> 0, after |-> 1, edge |-> {2 * HoursPerDay - 1}]
FallBack ==
    [at |-> HoursPerDay + 1, before |-> 1, after |-> 0, edge |-> {2 * HoursPerDay}]
Zones == {NoDst, SpringForward, FallBack}

\* The instants at which the clock is read in zone z: noon of each UTC day, and
\* the zone's edge hours.
Instants(z) == {d * HoursPerDay + 12 : d \in 0..MaxDay} \cup z.edge

\* Date.prototype.toISOString().split('T')[0] of the days the model can name
\* (day -1 .. day 6); day 0 is the day the clock starts in.
Calendar == <<"1969-12-31", "1970-01-01", "1970-01-02", "1970-01-03",
              "1970-01-04", "1970-01-05", "1970-01-06", "1970-01-07">>

\* toISOString().split('T')[0]: the UTC calendar date of instant t
ISODate(t) == Calendar[(t \div HoursPerDay) + 2]

\* the day number an ISO date string names (the inverse of the formatting)
DayOf(dateStr) == (CHOOSE k \in 1..Len(Calendar) : Calendar[k] = dateStr) - 2

\* LocalTime(t): the wall-clock reading at UTC instant t
LocalTime(z, t) == t + (IF t < z.at THEN z.before ELSE z.after)

\* UTC(l): the instant a wall-clock reading names.  A reading that occurs twice
\* (fall back) names its first occurrence, one that is skipped (spring forward)
\* is read with the offset before the change, as ECMAScript does.
UTCOfLocal(z, l) ==
    IF l - z.before < z.at THEN l - z.before
    ELSE IF l - z.after >= z.at THEN l - z.after
    ELSE l - z.before

\* getToday()
getToday(t) == ISODate(t)

\* isYesterday(dateStr): setDate(getDate() - 1) moves the LOCAL wall clock back
\* one calendar day; toISOString() then renders that instant in UTC.
isYesterday(z, t, dateStr) ==
    dateStr = ISODate(UTCOfLocal(z, LocalTime(z, t) - HoursPerDay))

\* an isToday() that never recognises today
isTodayNever(t, dateStr) == FALSE

\* isToday(dateStr)
isToday(t, dateStr) == dateStr = getToday(t)

(* ------------------------------ values --------------------------------- *)

\* an optional field: absent (undefined) or present
Undefined == <<>>
Some(x) == <<x>>

\* lastPracticeDate: null
Null == "null"

\* an optional field that holds null (as JSON text can say): neither
\* undefined nor a value
NullField == <<Null, Null>>

\* RecordAttemptInput values the callers pass
Inputs ==
    { [scenarioId |-> "s1", mode |-> "practice", completed |-> TRUE,
       focusComponent |-> Undefined, difficulty |-> Undefined, rating |-> Undefined],
      [scenarioId |-> "s1", mode |-> "translate", completed |-> FALSE,
       focusComponent |-> Some("feelings"), difficulty |-> Some("beginner"),
       rating |-> Some(4)] }

NoInput == [scenarioId |-> "", mode |-> "", completed |-> FALSE,
            focusComponent |-> Undefined, difficulty |-> Undefined, rating |-> Undefined]

\* what Math.random().toString(36).substr(2, 9) contributes to an id
RandomSuffixes == {"k3x9q2m1z"}

\* generateId(): `attempt-${Date.now()}-${random}`
generateId(t, rnd) == <<"attempt", t, rnd>>

\* a PracticeAttempt that drops the input's rating
NewAttemptUnrated(t, rnd, input) ==
    [id |-> generateId(t, rnd),
     timestamp |-> t,
     scenarioId |-> input.scenarioId,
     mode |-> input.mode,
     completed |-> input.completed,
     focusComponent |-> input.focusComponent,
     difficulty |-> input.difficulty,
     rating |-> Undefined]

\* the PracticeAttempt recordAttempt builds from its input
NewAttempt(t, rnd, input) ==
    [id |-> generateId(t, rnd),
     timestamp |-> t,
     scenarioId |-> input.scenarioId,
     mode |-> input.mode,
     completed |-> input.completed,
     focusComponent |-> input.focusComponent,
     difficulty |-> input.difficulty,
     rating |-> input.rating]

\* DEFAULT_PROGRESS_DATA as JSON: its scalar fields, and its two arrays by value
DefaultJson(aH, cH) ==
    [enabled |-> FALSE, attempts |-> aH[DefaultOwner],
     completedScenarios |-> cH[DefaultOwner], streakDays |-> 0,
     lastPracticeDate |-> Null, totalPracticeTime |-> 0]

\* { ...DEFAULT_PROGRESS_DATA }: a new object whose array fields REFER to the
\* arrays of DEFAULT_PROGRESS_DATA
DefaultCopy ==
    [k |-> "object", enabled |-> FALSE, attempts |-> DefaultOwner,
     completedScenarios |-> DefaultOwner, streakDays |-> 0,
     lastPracticeDate |-> Null, totalPracticeTime |-> 0]

\* a tracker that has not been constructed
NotCreated == [k |-> "none"]

\* `data` after JSON.parse returned null
NullData == [k |-> "null"]

\* `data` after JSON.parse returned an object that has `enabled` and no other
\* field: attempts, completedScenarios, streakDays are undefined
PartialData(enabled) == [k |-> "partial", enabled |-> enabled]

(* ------------------------- text and localStorage ----------------------- *)

\* getItem() of a key that is not set
NoItem == [t |-> "null"]
\* text that is not JSON
Garbage == [t |-> "garbage"]
\* the JSON text of a record v with all six fields
JsonText(v) == [t |-> "json", v |-> v]
\* the JSON text `null`
NullText == [t |-> "jsonNull"]
\* the JSON text `{"enabled": ...}`
PartialText(enabled) == [t |-> "jsonPartial", v |-> [enabled |-> enabled]]

\* JSON.stringify(data): the value by value, arrays followed to their contents
Stringify(d, aH, cH) ==
    IF d.k = "null" THEN NullText
    ELSE IF d.k = "partial" THEN PartialText(d.enabled)
    ELSE JsonText([enabled |-> d.enabled,
                   attempts |-> aH[d.attempts],
                   completedScenarios |-> cH[d.completedScenarios],
                   streakDays |-> d.streakDays,
                   lastPracticeDate |-> d.lastPracticeDate,
                   totalPracticeTime |-> d.totalPracticeTime])

\* a JSON.parse that returns for every text
ParsesAnything(text) == TRUE

\* whether JSON.parse(text) returns (rather than throws)
Parses(text) == text.t \in {"json", "jsonNull", "jsonPartial"}

\* a JSON.parse whose record always comes out with tracking disabled
ParsedDisabled(text, i) ==
    [k |-> "object", enabled |-> FALSE, attempts |-> i,
     completedScenarios |-> i, streakDays |-> text.v.streakDays,
     lastPracticeDate |-> text.v.lastPracticeDate,
     totalPracticeTime |-> text.v.totalPracticeTime]

\* the value JSON.parse(text) builds for tracker i: fresh arrays, owned by i
Parsed(text, i) ==
    IF text.t = "json"
    THEN [k |-> "object", enabled |-> text.v.enabled, attempts |-> i,
          completedScenarios |-> i, streakDays |-> text.v.streakDays,
          lastPracticeDate |-> text.v.lastPracticeDate,
          totalPracticeTime |-> text.v.totalPracticeTime]
    ELSE IF text.t = "jsonPartial" THEN PartialData(text.v.enabled)
    ELSE NullData

\* the contents of the arrays JSON.parse(text) builds (none when the parsed
\* value has no such field)
ParsedAttempts(text) == IF text.t = "json" THEN text.v.attempts ELSE <<>>
ParsedCompleted(text) == IF text.t = "json" THEN text.v.completedScenarios ELSE <<>>

\* no localStorage in this environment (typeof localStorage === 'undefined')
NoStorage == [defined |-> FALSE]
Storage(item) == [defined |-> TRUE, item |-> item]

(* ------------------------- the tracker's helpers ----------------------- *)

\* tracker i has been constructed
Made(i) == data[i].k # "none"

\* the operations of the tracker
Operations ==
    {"isEnabled", "enable", "disable", "recordAttempt", "getAttempts",
     "getCompletedScenarios", "getStreak", "getStats", "isScenarioCompleted",
     "getAttemptsForScenario", "exportData", "importData"}

\* whether operation op, called when `data` is d, throws a TypeError to its
\* caller.  On null every read or write of a property throws; JSON.stringify
\* does not, and importData catches.  On an object without arrays,
\* `data.attempts.push`, `[...data.attempts]`, `attempts.filter` and
\* `data.completedScenarios.includes` throw (recordAttempt only once it is past
\* its consent gate).
Throws(op, d) ==
    IF d.k = "null" THEN op \notin {"exportData", "importData"}
    ELSE IF d.k = "partial"
    THEN \/ op \in {"getAttempts", "getCompletedScenarios", "getStats",
                   "isScenarioCompleted", "getAttemptsForScenario"}
         \/ op = "recordAttempt" /\ d.enabled
    ELSE FALSE

\* what `last` remembers of a call: the operation, the instance, its arguments
\* and what the call found: the consent flag and, for recordAttempt, the streak
\* fields; and whether the call threw
Call(op, i, clearData, input, text) ==
    LET made == i \in Trackers /\ data[i].k \in {"object", "partial"}
        streak == made /\ data[i].k = "object" /\ op = "recordAttempt" IN
    [op |-> op, t |-> i, clearData |-> clearData, input |-> input, text |-> text,
     raised |-> i \in Trackers /\ Throws(op, data[i]),
     pre |-> [enabled |-> made /\ data[i].enabled,
              streakDays |-> IF streak THEN data[i].streakDays ELSE 0,
              lastPracticeDate |-> IF streak THEN data[i].lastPracticeDate ELSE Null]]

\* loadData(): whether it returns JSON.parse(stored) (else a default copy)
LoadsStored(ls) == ls.defined /\ ls.item # NoItem /\ Parses(ls.item)

\* loadData(): the object it returns to tracker i
loadData(ls, i) == IF LoadsStored(ls) THEN Parsed(ls.item, i) ELSE DefaultCopy

\* a saveData() that writes nothing
saveDataSkipped(ls, d, aH, cH) == ls

\* saveData(): localStorage after tracker data d is saved
saveData(ls, d, aH, cH) ==
    IF ls.defined THEN Storage(Stringify(d, aH, cH)) ELSE ls

\* an updateStreak() that leaves a record without lastPracticeDate alone
updateStreakSkipsFirst(z, t, d) ==
    IF d.lastPracticeDate = Null
    THEN d
    ELSE IF isToday(t, d.lastPracticeDate)
    THEN d
    ELSE IF isYesterday(z, t, d.lastPracticeDate)
    THEN [d EXCEPT !.streakDays = d.streakDays + 1, !.lastPracticeDate = getToday(t)]
    ELSE [d EXCEPT !.streakDays = 1, !.lastPracticeDate = getToday(t)]

\* updateStreak(): the record d after the streak update at instant t in zone z
updateStreak(z, t, d) ==
    IF d.lastPracticeDate = Null
    THEN [d EXCEPT !.streakDays = 1, !.lastPracticeDate = getToday(t)]
    ELSE IF isToday(t, d.lastPracticeDate)
    THEN d
    ELSE IF isYesterday(z, t, d.lastPracticeDate)
    THEN [d EXCEPT !.streakDays = d.streakDays + 1, !.lastPracticeDate = getToday(t)]
    ELSE [d EXCEPT !.streakDays = 1, !.lastPracticeDate = getToday(t)]

\* an includes() that never finds the element
IncludesNever(seq, x) == FALSE

\* Array.prototype.includes
Includes(seq, x) == \E k \in 1..Len(seq) : seq[k] = x

\* the arrays tracker i's own parsed object held are unreachable once `data`
\* is a default copy: they are dropped
Release(heap, i, d) ==
    IF d.k = "object" /\ d.attempts = DefaultOwner THEN [heap EXCEPT ![i] = <<>>] ELSE heap

(* ----------------------------- operations ------------------------------ *)

\* createProgressTracker(): `let data = loadData()`
createProgressTracker(i) ==
    /\ data[i].k = "none"
    /\ data' = [data EXCEPT ![i] = loadData(localStorage, i)]
    /\ attemptsHeap' = IF LoadsStored(localStorage)
                       THEN [attemptsHeap EXCEPT ![i] = ParsedAttempts(localStorage.item)]
                       ELSE attemptsHeap
    /\ completedHeap' = IF LoadsStored(localStorage)
                        THEN [completedHeap EXCEPT ![i] = ParsedCompleted(localStorage.item)]
                        ELSE completedHeap
    /\ last' = Call("create", i, FALSE, NoInput, NoItem)
    /\ UNCHANGED <<now, zone, localStorage, recorded, outsideLedger>>

\* the operation, called directly on the instance
Create(i) == createProgressTracker(i) /\ UNCHANGED hook

\* the instance goes out of use (its component unmounts); a later
\* createProgressTracker() builds a new one
Discard(i) ==
    /\ Made(i)
    /\ data' = [data EXCEPT ![i] = NotCreated]
    /\ attemptsHeap' = Release(attemptsHeap, i, DefaultCopy)
    /\ completedHeap' = Release(completedHeap, i, DefaultCopy)
    /\ last' = Call("discard", i, FALSE, NoInput, NoItem)
    /\ UNCHANGED <<now, zone, localStorage, recorded, outsideLedger, hook>>

\* an enable() that also starts the streak afresh
EnabledDataFresh(d) == [d EXCEPT !.enabled = TRUE, !.streakDays = 0]

\* the record enable() leaves in `data`
EnabledData(d) == [d EXCEPT !.enabled = TRUE]

\* enable()
enable(i) ==
    /\ Made(i)
    /\ last' = Call("enable", i, FALSE, NoInput, NoItem)
    /\ UNCHANGED <<now, zone, attemptsHeap, completedHeap, recorded, outsideLedger>>
    /\ IF Throws("enable", data[i])
       THEN UNCHANGED <<data, localStorage>>
       ELSE LET d == EnabledData(data[i]) IN
                /\ data' = [data EXCEPT ![i] = d]
                /\ localStorage' = saveData(localStorage, d, attemptsHeap, completedHeap)

\* the operation, called directly on the instance
Enable(i) == enable(i) /\ UNCHANGED hook

\* a disable() that always clears
DisabledDataCleared(d, clearData) == DefaultCopy

\* the record disable() leaves in `data`
DisabledData(d, clearData) ==
    IF clearData THEN DefaultCopy ELSE [d EXCEPT !.enabled = FALSE]

\* disable(options)
disable(i, clearData) ==
    /\ Made(i)
    /\ last' = Call("disable", i, clearData, NoInput, NoItem)
    /\ UNCHANGED <<now, zone, recorded, outsideLedger>>
    /\ IF Throws("disable", data[i])
       THEN UNCHANGED <<data, attemptsHeap, completedHeap, localStorage>>
       ELSE LET d == DisabledData(data[i], clearData)
                aH == Release(attemptsHeap, i, d)
                cH == Release(completedHeap, i, d) IN
                /\ data' = [data EXCEPT ![i] = d]
                /\ attemptsHeap' = aH
                /\ completedHeap' = cH
                /\ localStorage' = saveData(localStorage, d, aH, cH)

\* the operation, called directly on the instance
Disable(i, clearData) == disable(i, clearData) /\ UNCHANGED hook

\* a recordAttempt that lists the scenario whether or not it was completed
PushCompletedWhenever(completed, input) ==
    IF ~Includes(completed, input.scenarioId)
    THEN Append(completed, input.scenarioId)
    ELSE completed

\* a recordAttempt that lists a completed scenario again
PushCompletedAgain(completed, input) ==
    IF input.completed THEN Append(completed, input.scenarioId) ELSE completed

\* completedScenarios after recordAttempt's `if (input.completed && !includes)`
PushCompleted(completed, input) ==
    IF input.completed /\ ~Includes(completed, input.scenarioId)
    THEN Append(completed, input.scenarioId)
    ELSE completed

\* recordAttempt without its consent gate
RecordsUngated(d) == TRUE

\* whether recordAttempt(input) goes past its `if (!data.enabled) return`
Records(d) == d.enabled

\* recordAttempt(input)
recordAttempt(i, input, rnd) ==
    /\ Made(i)
    /\ last' = Call("recordAttempt", i, FALSE, input, NoItem)
    /\ UNCHANGED <<now, zone, outsideLedger>>
    /\ IF Throws("recordAttempt", data[i]) \/ ~Records(data[i])
       THEN UNCHANGED <<data, attemptsHeap, completedHeap, localStorage, recorded>>
       ELSE /\ recorded < MaxAttempts
            /\ recorded' = recorded + 1
            /\ LET a == data[i].attempts
                   c == data[i].completedScenarios
                   aH == [attemptsHeap EXCEPT ![a] = Append(@, NewAttempt(now, rnd, input))]
                   cH == [completedHeap EXCEPT ![c] = PushCompleted(@, input)]
                   d == updateStreak(zone, now, data[i]) IN
                /\ attemptsHeap' = aH
                /\ completedHeap' = cH
                /\ data' = [data EXCEPT ![i] = d]
                /\ localStorage' = saveData(localStorage, d, aH, cH)

\* the operation, called directly on the instance
RecordAttempt(i, input, rnd) == recordAttempt(i, input, rnd) /\ UNCHANGED hook

\* importData(json)
importData(i, text) ==
    /\ Made(i)
    /\ last' = Call("importData", i, FALSE, NoInput, text)
    /\ UNCHANGED <<now, zone, recorded, outsideLedger>>
    /\ IF ~Parses(text)
       THEN UNCHANGED <<data, attemptsHeap, completedHeap, localStorage>>
       ELSE LET d == Parsed(text, i)
                aH == [attemptsHeap EXCEPT ![i] = ParsedAttempts(text)]
                cH == [completedHeap EXCEPT ![i] = ParsedCompleted(text)] IN
                /\ data' = [data EXCEPT ![i] = d]
                /\ attemptsHeap' = aH
                /\ completedHeap' = cH
                /\ localStorage' = saveData(localStorage, d, aH, cH)

\* the operation, called directly on the instance
ImportData(i, text) == importData(i, text) /\ UNCHANGED hook

\* time passes
Tick ==
    /\ \E t \in Instants(zone) : t > now /\ now' = t
    /\ last' = Call("tick", 0, FALSE, NoInput, NoItem)
    /\ UNCHANGED <<zone, localStorage, attemptsHeap, completedHeap, data, recorded, outsideLedger, hook>>

(* ------------------------------ queries -------------------------------- *)

isEnabled(i) == data[i].enabled
getAttempts(i) == attemptsHeap[data[i].attempts]
getCompletedScenarios(i) == completedHeap[data[i].completedScenarios]
getStreak(i) == data[i].streakDays
exportData(i) == Stringify(data[i], attemptsHeap, completedHeap)
isScenarioCompleted(i, scenarioId) == Includes(getCompletedScenarios(i), scenarioId)

\* a Math.round that drops the fraction
RoundDown(p, q) == p \div q

\* Math.round(p / q) for p >= 0 and q > 0: the nearest integer, a half goes up
Round(p, q) == (2 * p + q) \div (2 * q)

\* `a.rating || 0`: the rating, or 0 for undefined, null and 0
RatingOrZero(a) == IF Len(a.rating) = 1 THEN a.rating[1] ELSE 0

\* reduce((sum, a) => sum + (a.rating || 0), 0)
RECURSIVE SumRatings(_)
SumRatings(seq) ==
    IF seq = <<>> THEN 0 ELSE RatingOrZero(Head(seq)) + SumRatings(Tail(seq))

\* byComponent, byDifficulty: for each key the loop met, how many attempts
\* carry it; `if (attempt.focusComponent)` skips undefined, null and ''
Truthy(field) == Len(field) = 1 /\ field[1] # ""
CountBy(attempts, field) ==
    LET counted == {k \in 1..Len(attempts) : Truthy(attempts[k][field])}
        ks == {attempts[k][field][1] : k \in counted} IN
    [key \in ks |-> Cardinality({k \in counted : attempts[k][field][1] = key})]

\* byMode: `attempt.mode` is counted whatever it is
CountByMode(attempts) ==
    [key \in {attempts[k].mode : k \in 1..Len(attempts)} |->
        Cardinality({k \in 1..Len(attempts) : attempts[k].mode = key})]

\* getStats(): `ratedAttempts` is filter(a => a.rating !== undefined), and
\* averageRating is Math.round(sum / ratedAttempts.length * 10) / 10, kept here
\* in tenths (42 for 4.2)
getStatsAverageRating(i) ==
    LET attempts == attemptsHeap[data[i].attempts]
        ratedAttempts == SelectSeq(attempts, LAMBDA a : a.rating # Undefined) IN
    IF Len(ratedAttempts) > 0
    THEN Round(SumRatings(ratedAttempts) * 10, Len(ratedAttempts))
    ELSE 0

\* getStats()
getStats(i) ==
    LET attempts == attemptsHeap[data[i].attempts]
        completedAttempts == Len(SelectSeq(attempts, LAMBDA a : a.completed)) IN
    [totalAttempts |-> Len(attempts),
     completedAttempts |-> completedAttempts,
     completionRate |-> IF Len(attempts) > 0
                        THEN Round(completedAttempts * 100, Len(attempts))
                        ELSE 0,
     averageRating |-> getStatsAverageRating(i),
     streakDays |-> data[i].streakDays,
     byComponent |-> CountBy(attempts, "focusComponent"),
     byDifficulty |-> CountBy(attempts, "difficulty"),
     byMode |-> CountByMode(attempts)]

\* a getAttemptsForScenario that returns the matching attempts latest first
getAttemptsForScenarioLatestFirst(i, scenarioId) ==
    LET r == SelectSeq(attemptsHeap[data[i].attempts], LAMBDA a : a.scenarioId = scenarioId) IN
    [k \in 1..Len(r) |-> r[Len(r) + 1 - k]]

\* getAttemptsForScenario(scenarioId): data.attempts.filter(a => a.scenarioId === scenarioId)
getAttemptsForScenario(i, scenarioId) ==
    SelectSeq(attemptsHeap[data[i].attempts], LAMBDA a : a.scenarioId = scenarioId)

(* -------------------- callers and the values returned ------------------ *)

\* getAttempts() is `[...data.attempts]`, getCompletedScenarios() is
\* `[...data.completedScenarios]`, getAttemptsForScenario() is
\* `data.attempts.filter(...)`: each a NEW array whose elements are the same
\* values as the ledger's.  A caller that changes the returned array (push,
\* pop, sort, assignment to an index) changes that new array only.
MutateReturnedArray(i, getter) ==
    /\ Made(i)
    /\ getter \in {"getAttempts", "getCompletedScenarios", "getAttemptsForScenario"}
    /\ ~Throws(getter, data[i])
    /\ last' = Call("mutateReturnedArray", i, FALSE, NoInput, NoItem)
    /\ UNCHANGED <<now, zone, localStorage, attemptsHeap, completedHeap, data, recorded, outsideLedger, hook>>

\* The elements of the array getAttempts() or getAttemptsForScenario() returned
\* are the ledger's own PracticeAttempt objects (a spread and a filter copy
\* references): a caller's `returned[k].rating = rating` writes the object that
\* data.attempts[k] refers to.
MutateReturnedAttempt(i, k, rating) ==
    /\ Made(i)
    /\ ~Throws("getAttempts", data[i])
    /\ k \in 1..Len(getAttempts(i))
    /\ attemptsHeap' = [attemptsHeap EXCEPT ![data[i].attempts][k].rating = rating]
    /\ last' = Call("mutateReturnedAttempt", i, FALSE, NoInput, NoItem)
    /\ UNCHANGED <<now, zone, localStorage, completedHeap, data, recorded, outsideLedger, hook>>

(* ------------------ the hosts beside the ledger ------------------------ *)

\* the terminals the dev-server script is invoked from
Shells == {1, 2}

\* a terminal in which the script is not running
IdleShell ==
    [cmd |-> "none", pc |-> "idle", background |-> FALSE, pid |-> <<>>, count |-> 0,
     out |-> <<>>, code |-> 0]

\* no PID file, no server process, no invocation of the script
NoScript ==
    /\ pidFile = <<>>
    /\ procs = <<>>
    /\ shell = [s \in Shells |-> IdleShell]

\* no chat request is being served
NoRequest == [pc |-> "none"]

\* no component uses the hook
NotMounted == [mounted |-> FALSE]

\* the script, the chat route and the hook are not in use
NoHost == NoScript /\ request = NoRequest /\ hook = NotMounted

(* ------------------------- initial state, inputs ----------------------- *)

\* an attempt a previous session recorded in the first hour of day 0
OldAttempt ==
    NewAttempt(0, "a0b1c2d3e", [scenarioId |-> "s2", mode |-> "practice", completed |-> TRUE,
                      focusComponent |-> Some("needs"), difficulty |-> Undefined,
                      rating |-> Some(5)])

\* what a previous session left in localStorage after enable() and one attempt
StoredByEarlierSession ==
    JsonText([enabled |-> TRUE, attempts |-> <<OldAttempt>>,
              completedScenarios |-> <<"s2">>, streakDays |-> 1,
              lastPracticeDate |-> ISODate(0), totalPracticeTime |-> 0])

\* a progress file put together from two devices: a streak of 5 that ends on
\* day 1, tracking enabled, no attempts kept, the two lists of completed
\* scenarios one after the other
ImportedStreak ==
    JsonText([enabled |-> TRUE, attempts |-> <<>>, completedScenarios |-> <<"s2", "s2">>,
              streakDays |-> 5, lastPracticeDate |-> ISODate(HoursPerDay),
              totalPracticeTime |-> 3600])

\* a progress file exported while tracking was disabled, holding one attempt
ImportedDisabled ==
    JsonText([enabled |-> FALSE, attempts |-> <<OldAttempt>>,
              completedScenarios |-> <<"s2">>, streakDays |-> 1,
              lastPracticeDate |-> ISODate(0), totalPracticeTime |-> 0])

\* a progress file that writes an attempt's missing rating as null
UnratedAttempt ==
    [NewAttempt(0, "q8w7e6r5t", [scenarioId |-> "s2", mode |-> "practice",
                                 completed |-> TRUE, focusComponent |-> Undefined,
                                 difficulty |-> Undefined, rating |-> Undefined])
        EXCEPT !.rating = NullField]

ImportedUnrated ==
    JsonText([enabled |-> TRUE, attempts |-> <<UnratedAttempt>>,
              completedScenarios |-> <<"s2">>, streakDays |-> 1,
              lastPracticeDate |-> ISODate(0), totalPracticeTime |-> 0])

ImportTexts == {Garbage, ImportedStreak, ImportedDisabled}

\* no module-level function is being called
NoCall == [fn |-> "none"]

InitialStorage ==
    {NoStorage} \cup {Storage(x) : x \in {NoItem, Garbage, StoredByEarlierSession}}

Init ==
    /\ now = 12
    /\ recorded = 0
    /\ zone \in Zones
    /\ localStorage \in InitialStorage
    /\ attemptsHeap = [o \in Owners |-> <<>>]
    /\ completedHeap = [o \in Owners |-> <<>>]
    /\ data = [i \in Trackers |-> NotCreated]
    /\ last = [op |-> "init", t |-> 0, clearData |-> FALSE, input |-> NoInput,
               text |-> NoItem, raised |-> FALSE,
               pre |-> [enabled |-> FALSE, streakDays |-> 0, lastPracticeDate |-> Null]]
    /\ call = NoCall
    /\ NoHost

\* the calls a host makes on the instances in `is`
Calls(is) ==
    \/ \E i \in is : Create(i)
    \/ \E i \in is : Discard(i)
    \/ \E i \in is : Enable(i)
    \/ \E i \in is, clearData \in BOOLEAN : Disable(i, clearData)
    \/ \E i \in is, input \in Inputs, rnd \in RandomSuffixes : RecordAttempt(i, input, rnd)
    \/ \E i \in is, text \in ImportTexts : ImportData(i, text)

\* one tracker instance at a time (a later one may replace it)
Next == Calls({1}) \/ Tick

Spec == Init /\ [][Next]_vars

\* A ledger that starts from the default record (nothing parseable stored) and
\* sees only enable, disable, recordAttempt and the passing of time.
InitFromDefault == Init /\ ~LoadsStored(localStorage)

NextFromDefault ==
    \/ Create(1)
    \/ Enable(1)
    \/ \E clearData \in BOOLEAN : Disable(1, clearData)
    \/ \E input \in Inputs, rnd \in RandomSuffixes : RecordAttempt(1, input, rnd)
    \/ Tick

SpecFromDefault == InitFromDefault /\ [][NextFromDefault]_vars

\* A ledger in a time zone without a DST change (the zone enters the ledger
\* through updateStreak only, and there only into streakDays and
\* lastPracticeDate), whose callers also hand it back what it exported:
\* importData(exportData()).
ImportOwnExport(i) == Made(i) /\ ImportData(i, exportData(i))

InitNoDst == Init /\ zone = NoDst

NextNoDst == Calls({1}) \/ ImportOwnExport(1) \/ Tick

SpecNoDst == InitNoDst /\ [][NextNoDst]_vars

\* A ledger whose callers import any text that parses: besides the progress
\* files (one of them with a null for a missing rating), the texts `null` and
\* `{"enabled":true}`.
UnvalidatedTexts == {Garbage, NullText, PartialText(TRUE), ImportedDisabled, ImportedUnrated}

NextAnyText ==
    \/ Create(1)
    \/ Discard(1)
    \/ Enable(1)
    \/ \E clearData \in BOOLEAN : Disable(1, clearData)
    \/ \E input \in Inputs, rnd \in RandomSuffixes : RecordAttempt(1, input, rnd)
    \/ \E text \in UnvalidatedTexts : ImportData(1, text)
    \/ Tick

SpecAnyText == Init /\ [][NextAnyText]_vars

\* A ledger on the default record whose Math.random() may give, at each call,
\* either of two values: the same one again, or the other.
TwoSuffixes == RandomSuffixes \cup {"7f2p0c4ha"}

NextRandomIds ==
    \/ Create(1)
    \/ Enable(1)
    \/ \E input \in Inputs, rnd \in TwoSuffixes : RecordAttempt(1, input, rnd)
    \/ Tick

SpecRandomIds == InitFromDefault /\ [][NextRandomIds]_vars

\* Two instances constructed over the same store before either is used, and
\* their operations in any interleaving.  Math.random() gives each instance a
\* value of its own, so an attempt's id tells which instance recorded it.
InstanceSuffix(i) == IF i = 1 THEN "k3x9q2m1z" ELSE "7f2p0c4ha"

InitTwoLedgers ==
    /\ now = 12
    /\ recorded = 0
    /\ zone = NoDst
    /\ localStorage \in InitialStorage
    /\ attemptsHeap = [o \in Owners |->
                          IF o \in Trackers /\ LoadsStored(localStorage)
                          THEN ParsedAttempts(localStorage.item) ELSE <<>>]
    /\ completedHeap = [o \in Owners |->
                           IF o \in Trackers /\ LoadsStored(localStorage)
                           THEN ParsedCompleted(localStorage.item) ELSE <<>>]
    /\ data = [i \in Trackers |-> loadData(localStorage, i)]
    /\ last = [op |-> "init", t |-> 0, clearData |-> FALSE, input |-> NoInput,
               text |-> NoItem, raised |-> FALSE,
               pre |-> [enabled |-> FALSE, streakDays |-> 0, lastPracticeDate |-> Null]]
    /\ call = NoCall
    /\ NoHost

NextTwoLedgers ==
    \/ \E i \in Trackers : Enable(i)
    \/ \E i \in Trackers : \E clearData \in BOOLEAN : Disable(i, clearData)
    \/ \E i \in Trackers : \E input \in Inputs : RecordAttempt(i, input, InstanceSuffix(i))
    \/ \E i \in Trackers : \E text \in {Garbage, ImportedDisabled} : ImportData(i, text)
    \/ Tick

SpecTwoLedgers == InitTwoLedgers /\ [][NextTwoLedgers]_vars

\* A ledger whose callers also write into the values its getters returned.
NextCallers ==
    \/ Calls({1})
    \/ \E getter \in {"getAttempts", "getCompletedScenarios", "getAttemptsForScenario"} :
           MutateReturnedArray(1, getter)
    \/ \E k \in 1..(MaxAttempts + 1) : MutateReturnedAttempt(1, k, Some(1))
    \/ Tick

SpecCallers == InitNoDst /\ [][NextCallers]_vars

\* progress files whose streak does not fit their lastPracticeDate (importData
\* validates nothing): one that names day 0 as the last day of practice with a
\* streak of 0, and one with a negative streak
ImportedNoStreak ==
    JsonText([enabled |-> TRUE, attempts |-> <<>>, completedScenarios |-> <<>>,
              streakDays |-> 0, lastPracticeDate |-> ISODate(0),
              totalPracticeTime |-> 0])

ImportedNegativeStreak ==
    JsonText([enabled |-> TRUE, attempts |-> <<>>, completedScenarios |-> <<>>,
              streakDays |-> -1, lastPracticeDate |-> ISODate(0),
              totalPracticeTime |-> 0])

StreakTexts == {ImportedStreak, ImportedNoStreak, ImportedNegativeStreak}

\* one instance, importData with any streak
NextAnyStreak ==
    \/ Create(1)
    \/ Discard(1)
    \/ Enable(1)
    \/ \E clearData \in BOOLEAN : Disable(1, clearData)
    \/ \E input \in Inputs, rnd \in RandomSuffixes : RecordAttempt(1, input, rnd)
    \/ \E text \in StreakTexts : ImportData(1, text)
    \/ Tick

SpecAnyStreak == InitNoDst /\ [][NextAnyStreak]_vars

(* ---------------------------- practice mode ---------------------------- *)

\* A string is the sequence of its characters.
UpperCase == <<"A", "B", "C", "D", "E", "F", "G", "H", "I", "J", "K", "L", "M",
               "N", "O", "P", "Q", "R", "S", "T", "U", "V", "W", "X", "Y", "Z">>
LowerCase == <<"a", "b", "c", "d", "e", "f", "g", "h", "i", "j", "k", "l", "m",
               "n", "o", "p", "q", "r", "s", "t", "u", "v", "w", "x", "y", "z">>
Digits == {"0", "1", "2", "3", "4", "5", "6", "7", "8", "9"}

\* the words detectPracticeMode looks for
Practice == <<"p", "r", "a", "c", "t", "i", "c", "e">>
Scenario == <<"s", "c", "e", "n", "a", "r", "i", "o">>
Translate == <<"t", "r", "a", "n", "s", "l", "a", "t", "e">>
Transform == <<"t", "r", "a", "n", "s", "f", "o", "r", "m">>
Observation == <<"o", "b", "s", "e", "r", "v", "a", "t", "i", "o", "n">>
Feeling == <<"f", "e", "e", "l", "i", "n", "g">>
Need == <<"n", "e", "e", "d">>
Request == <<"r", "e", "q", "u", "e", "s", "t">>
Beginner == <<"b", "e", "g", "i", "n", "n", "e", "r">>
Intermediate == <<"i", "n", "t", "e", "r", "m", "e", "d", "i", "a", "t", "e">>
Advanced == <<"a", "d", "v", "a", "n", "c", "e", "d">>
MultiTurnHyphen == <<"m", "u", "l", "t", "i", "-", "t", "u", "r", "n">>
MultiTurnSpace == <<"m", "u", "l", "t", "i", " ", "t", "u", "r", "n">>
Single == <<"s", "i", "n", "g", "l", "e">>
Quick == <<"q", "u", "i", "c", "k">>

\* String.prototype.toLowerCase, character by character
UpperChars == {UpperCase[k] : k \in 1..Len(UpperCase)}
ToLower == [c \in UpperChars |-> LowerCase[CHOOSE k \in 1..Len(UpperCase) : UpperCase[k] = c]]
LowerOf(c) == IF c \in UpperChars THEN ToLower[c] ELSE c
toLowerCase(str) == [k \in 1..Len(str) |-> LowerOf(str[k])]

\* w stands in str right after its first p characters
MatchesAt(str, w, p) ==
    /\ p + Len(w) <= Len(str)
    /\ \A k \in 1..Len(w) : str[p + k] = w[k]

\* String.prototype.includes
includes(str, w) == \E p \in 0..(Len(str) - Len(w)) : MatchesAt(str, w, p)

\* the class \w of a regular expression
WordChars == {LowerCase[k] : k \in 1..Len(LowerCase)} \cup UpperChars \cup Digits \cup {"_"}
IsWordChar(c) == c \in WordChars

\* \b after the first p characters of str: a word character on exactly one side
WordBoundary(str, p) ==
    (p >= 1 /\ IsWordChar(str[p])) # (p < Len(str) /\ IsWordChar(str[p + 1]))

\* /\bWs?\b/.test(str), W a word
TestWord(str, w) ==
    \E p \in 0..Len(str) :
        /\ MatchesAt(str, w, p)
        /\ WordBoundary(str, p)
        /\ \/ WordBoundary(str, p + Len(w))
           \/ MatchesAt(str, <<"s">>, p + Len(w)) /\ WordBoundary(str, p + Len(w) + 1)

\* /\bW/.test(str), W a word
TestWordStart(str, w) ==
    \E p \in 0..Len(str) : MatchesAt(str, w, p) /\ WordBoundary(str, p)

\* componentPatterns, in the order of its keys
Components == <<"observations", "feelings", "needs", "requests">>
ComponentPattern(component, str) ==
    CASE component = "observations" -> TestWordStart(str, Observation)
      [] component = "feelings" -> TestWord(str, Feeling)
      [] component = "needs" -> TestWord(str, Need)
      [] component = "requests" -> TestWord(str, Request)

\* a detector that takes every message for a practice request
IsPracticeModeAlways(lowerMessage) == TRUE

\* isPractice || isTranslate
IsPracticeMode(lowerMessage) ==
    \/ includes(lowerMessage, Practice) \/ includes(lowerMessage, Scenario)
    \/ includes(lowerMessage, Translate) \/ includes(lowerMessage, Transform)

\* a mode in which the practice keywords win
DetectedModePracticeFirst(lowerMessage) ==
    IF includes(lowerMessage, Practice) \/ includes(lowerMessage, Scenario)
    THEN "practice" ELSE "translate"

\* mode: isTranslate ? 'translate' : 'practice'
DetectedMode(lowerMessage) ==
    IF includes(lowerMessage, Translate) \/ includes(lowerMessage, Transform)
    THEN "translate" ELSE "practice"

\* the loop over componentPatterns: the first component whose pattern matches
DetectedFocusComponent(lowerMessage) ==
    LET hits == {k \in 1..Len(Components) : ComponentPattern(Components[k], lowerMessage)} IN
    IF hits = {} THEN Undefined
    ELSE Some(Components[CHOOSE k \in hits : \A j \in hits : k <= j])

\* a difficulty chain that asks for 'advanced' first
DetectedDifficultyAdvancedFirst(lowerMessage) ==
    IF includes(lowerMessage, Advanced) THEN Some("advanced")
    ELSE IF includes(lowerMessage, Intermediate) THEN Some("intermediate")
    ELSE IF includes(lowerMessage, Beginner) THEN Some("beginner")
    ELSE Undefined

\* the if / else if chain on 'beginner', 'intermediate', 'advanced'
DetectedDifficulty(lowerMessage) ==
    IF includes(lowerMessage, Beginner) THEN Some("beginner")
    ELSE IF includes(lowerMessage, Intermediate) THEN Some("intermediate")
    ELSE IF includes(lowerMessage, Advanced) THEN Some("advanced")
    ELSE Undefined

\* the if / else if on 'multi-turn' or 'multi turn', then 'single' or 'quick'
DetectedConversationMode(lowerMessage) ==
    IF includes(lowerMessage, MultiTurnHyphen) \/ includes(lowerMessage, MultiTurnSpace)
    THEN Some("multi")
    ELSE IF includes(lowerMessage, Single) \/ includes(lowerMessage, Quick)
    THEN Some("single")
    ELSE Undefined

\* detectPracticeMode(message)
detectPracticeMode(message) ==
    LET lowerMessage == toLowerCase(message) IN
    IF ~IsPracticeMode(lowerMessage)
    THEN [isPracticeMode |-> FALSE, mode |-> Undefined, focusComponent |-> Undefined,
          difficulty |-> Undefined, conversationMode |-> Undefined]
    ELSE [isPracticeMode |-> TRUE,
          mode |-> Some(DetectedMode(lowerMessage)),
          focusComponent |-> DetectedFocusComponent(lowerMessage),
          difficulty |-> DetectedDifficulty(lowerMessage),
          conversationMode |-> DetectedConversationMode(lowerMessage)]

\* The messages the callers send: up to MaxPieces pieces one after the other.
\* A piece is a word after a space, or a bare "need", or one of the endings
\* "s" and "al".  A message is about the components or about difficulty and
\* conversation mode; either kind may carry the keywords, two of them with a
\* capital.
MaxPieces == 3

Spaced(words) == {<<" ">> \o w : w \in words}

KeywordPieces ==
    Spaced({<<"P">> \o Tail(Practice), Scenario, Translate, <<"T">> \o Tail(Transform)})

ComponentPieces ==
    KeywordPieces \cup Spaced({Observation, Feeling, Need, Request})
    \cup {Need, <<"s">>, <<"a", "l">>}

SettingPieces ==
    KeywordPieces
    \cup Spaced({Beginner, Intermediate, Advanced, MultiTurnHyphen, MultiTurnSpace, Single, Quick})

RECURSIVE MessagesOf(_, _)
MessagesOf(pieces, n) ==
    IF n = 0 THEN {<<>>}
    ELSE LET shorter == MessagesOf(pieces, n - 1) IN
         shorter \cup {m \o piece : m \in shorter, piece \in pieces}

Messages == MessagesOf(ComponentPieces, MaxPieces) \cup MessagesOf(SettingPieces, MaxPieces)

\* no ledger is in use
NoLedger ==
    /\ now = 12
    /\ recorded = 0
    /\ zone = NoDst
    /\ localStorage = NoStorage
    /\ attemptsHeap = [o \in Owners |-> <<>>]
    /\ completedHeap = [o \in Owners |-> <<>>]
    /\ data = [i \in Trackers |-> NotCreated]
    /\ last = [op |-> "init", t |-> 0, clearData |-> FALSE, input |-> NoInput,
               text |-> NoItem, raised |-> FALSE,
               pre |-> [enabled |-> FALSE, streakDays |-> 0, lastPracticeDate |-> Null]]

ledgerVars == <<now, zone, localStorage, attemptsHeap, completedHeap, data, recorded, last>>

\* a caller is about to call detectPracticeMode(message)
InitDetect ==
    /\ NoLedger
    /\ NoHost
    /\ call \in {[fn |-> "detectPracticeMode", message |-> m, returned |-> FALSE] :
                    m \in Messages}

\* the call returns
DetectPracticeMode ==
    /\ call.fn = "detectPracticeMode"
    /\ ~call.returned
    /\ call' = [fn |-> "detectPracticeMode", message |-> call.message, returned |-> TRUE,
                result |-> detectPracticeMode(call.message)]
    /\ UNCHANGED <<ledgerVars, pidFile, procs, shell, request, hook>>

NextDetect == DetectPracticeMode

SpecDetect == InitDetect /\ [][NextDetect]_vars

(* --------------------------- filterScenarios --------------------------- *)

\* the scenarios of the catalogue
ScenarioPool ==
    { [title |-> "Beginner Observations", difficulty |-> "beginner",
       focus_component |-> "observations", mode |-> "single"],
      [title |-> "Intermediate Feelings", difficulty |-> "intermediate",
       focus_component |-> "feelings", mode |-> "single"],
      [title |-> "Advanced Conflict", difficulty |-> "advanced",
       focus_component |-> "conflict_resolution", mode |-> "multi"],
      [title |-> "Beginner Full OFNR", difficulty |-> "beginner",
       focus_component |-> "all", mode |-> "single"] }

\* the ScenarioFilter values the callers pass: each field left out or given;
\* focusComponent is a string of any content, the empty one included
ScenarioFilters ==
    [difficulty : {Undefined, Some("beginner"), Some("intermediate"), Some("advanced")},
     focusComponent : {Undefined, Some("observations"), Some("feelings"), Some("")},
     conversationMode : {Undefined, Some("single"), Some("multi")}]

MaxScenarios == 3

RECURSIVE ScenarioLists(_)
ScenarioLists(n) ==
    IF n = 0 THEN {<<>>}
    ELSE LET shorter == ScenarioLists(n - 1) IN
         shorter \cup {Append(l, x) : l \in shorter, x \in ScenarioPool}

\* the callback of filterScenarios: each `if (filter.x && scenario.y !== filter.x)
\* return false`, then `return true`
Keeps(scenario, filter) ==
    /\ ~(Truthy(filter.difficulty) /\ scenario.difficulty # filter.difficulty[1])
    /\ ~(Truthy(filter.focusComponent) /\ scenario.focus_component # filter.focusComponent[1])
    /\ ~(Truthy(filter.conversationMode) /\ scenario.mode # filter.conversationMode[1])

\* a filterScenarios that returns the records it keeps last first
filterScenariosLastFirst(scenarios, filter) ==
    LET r == SelectSeq(scenarios, LAMBDA scenario : Keeps(scenario, filter)) IN
    [k \in 1..Len(r) |-> r[Len(r) + 1 - k]]

\* filterScenarios(scenarios, filter)
filterScenarios(scenarios, filter) ==
    SelectSeq(scenarios, LAMBDA scenario : Keeps(scenario, filter))

\* a caller is about to call filterScenarios(scenarios, filter)
InitFilter ==
    /\ NoLedger
    /\ NoHost
    /\ call \in {[fn |-> "filterScenarios", scenarios |-> l, filter |-> f, returned |-> FALSE] :
                    l \in ScenarioLists(MaxScenarios), f \in ScenarioFilters}

\* the call returns
FilterScenarios ==
    /\ call.fn = "filterScenarios"
    /\ ~call.returned
    /\ call' = [fn |-> "filterScenarios", scenarios |-> call.scenarios,
                filter |-> call.filter, returned |-> TRUE,
                result |-> filterScenarios(call.scenarios, call.filter)]
    /\ UNCHANGED <<ledgerVars, pidFile, procs, shell, request, hook>>

NextFilter == FilterScenarios

SpecFilter == InitFilter /\ [][NextFilter]_vars

(* --------------------------- dev-server script ------------------------- *)

\* the script spawns at most this many server processes
MaxServers == 2

\* cmd_stop: `[ $count -lt 10 ]`, the seconds it waits after SIGTERM
MaxWait == 10

\* the PID a stale PID file names: no live process has it
StalePid == 0

\* what the ledger, the detector, the chat route and the hook hold
outsideScript == <<now, zone, localStorage, attemptsHeap, completedHeap, data, recorded,
                   last, call, request, hook>>

\* process p is in the process table
Alive(p) == p \in 1..Len(procs) /\ procs[p] # "exited"

\* ps -p "$pid" > /dev/null 2>&1, for what `cat "$PID_FILE"` gave (nothing, or a pid)
ps_p(pid) == pid # <<>> /\ Alive(pid[1])

\* an is_running that never finds the server
is_runningNever == FALSE

\* is_running
is_running == pidFile # <<>> /\ ps_p(pidFile)

\* get_pid
get_pid == pidFile

\* an rm that leaves the file
rm_fNot(file) == file

\* rm -f "$PID_FILE"
rm_f(file) == <<>>

\* kill "$pid" 2>/dev/null || true: SIGTERM reaches a process that is there
kill(ps, pid) ==
    IF pid # <<>> /\ pid[1] \in 1..Len(ps) /\ ps[pid[1]] = "running"
    THEN [ps EXCEPT ![pid[1]] = "terminating"]
    ELSE ps

\* a kill -9 that sends nothing
kill_9Not(ps, pid) == ps

\* kill -9 "$pid" 2>/dev/null || true: SIGKILL ends a process that is there
kill_9(ps, pid) ==
    IF pid # <<>> /\ pid[1] \in 1..Len(ps)
    THEN [ps EXCEPT ![pid[1]] = "exited"]
    ELSE ps

\* the invocation in terminal s goes on at pc with the message printed
Goes(s, pc, message) ==
    [shell EXCEPT ![s].pc = pc, ![s].out = Append(@, message)]

\* where cmd_stop returns to: cmd_restart goes on with `cmd_start --background`
AfterStop(s) == IF shell[s].cmd = "restart" THEN "start" ELSE "done"

\* `dev-server.sh <cmd>` is typed in terminal s
Invoke(s, cmd, background) ==
    /\ shell[s].pc \in {"idle", "done"}
    /\ cmd \in {"start", "restart"} => Len(procs) < MaxServers
    /\ cmd = "restart" => background
    /\ cmd \in {"stop", "status"} => ~background
    /\ shell' = [shell EXCEPT ![s] =
                    [IdleShell EXCEPT !.cmd = cmd, !.background = background,
                                      !.pc = IF cmd = "restart" THEN "stop" ELSE cmd]]
    /\ UNCHANGED <<pidFile, procs, outsideScript>>

\* cmd_start: `if is_running; then ... return 0; fi`
StartCheck(s) ==
    /\ shell[s].pc = "start"
    /\ shell' = IF is_running
                THEN [Goes(s, "done", "Server is already running") EXCEPT ![s].pid = get_pid]
                ELSE Goes(s, "spawn", "Starting development server")
    /\ UNCHANGED <<pidFile, procs, outsideScript>>

\* cmd_start: `nohup npm run dev ... &` with `pid=$!`, or `npm run dev`
Spawn(s) ==
    /\ shell[s].pc = "spawn"
    /\ procs' = Append(procs, "running")
    /\ shell' = [shell EXCEPT ![s].pid = <<Len(procs) + 1>>,
                              ![s].pc = IF shell[s].background THEN "write" ELSE "foreground"]
    /\ UNCHANGED <<pidFile, outsideScript>>

\* cmd_start: `echo "$pid" > "$PID_FILE"`
WritePid(s) ==
    /\ shell[s].pc = "write"
    /\ pidFile' = shell[s].pid
    /\ shell' = Goes(s, "done", "Server started in background")
    /\ UNCHANGED <<procs, outsideScript>>

\* Ctrl+C in the terminal of a foreground server: the server and the script end
Interrupt(s) ==
    /\ shell[s].pc = "foreground"
    /\ procs' = [procs EXCEPT ![shell[s].pid[1]] = "exited"]
    /\ shell' = [shell EXCEPT ![s].pc = "done", ![s].code = 130]
    /\ UNCHANGED <<pidFile, outsideScript>>

\* cmd_stop: `if ! is_running`
StopCheck(s) ==
    /\ shell[s].pc = "stop"
    /\ shell' = [shell EXCEPT ![s].pc = IF is_running THEN "getpid" ELSE "stale"]
    /\ UNCHANGED <<pidFile, procs, outsideScript>>

\* cmd_stop and cmd_status, server not running: the warning, `rm -f "$PID_FILE"`
\* and the return (status returns 1)
RemoveStale(s) ==
    /\ shell[s].pc = "stale"
    /\ pidFile' = rm_f(pidFile)
    /\ shell' = [Goes(s, IF shell[s].cmd = "status" THEN "done" ELSE AfterStop(s),
                      "Server is not running")
                    EXCEPT ![s].code = IF shell[s].cmd = "status" THEN 1 ELSE 0]
    /\ UNCHANGED <<procs, outsideScript>>

\* cmd_stop: `local pid=$(get_pid)`
GetPid(s) ==
    /\ shell[s].pc = "getpid"
    /\ shell' = [Goes(s, "kill", "Stopping server") EXCEPT ![s].pid = get_pid]
    /\ UNCHANGED <<pidFile, procs, outsideScript>>

\* cmd_stop: `kill "$pid" 2>/dev/null || true` and `local count=0`
Kill(s) ==
    /\ shell[s].pc = "kill"
    /\ procs' = kill(procs, shell[s].pid)
    /\ shell' = [shell EXCEPT ![s].pc = "wait", ![s].count = 0]
    /\ UNCHANGED <<pidFile, outsideScript>>

\* cmd_stop: one test of `while ps -p "$pid" ... && [ $count -lt 10 ]`, and the
\* `sleep 1; count=$((count + 1))` of the body
Wait(s) ==
    /\ shell[s].pc = "wait"
    /\ shell' = IF ps_p(shell[s].pid) /\ shell[s].count < MaxWait
                THEN [shell EXCEPT ![s].count = @ + 1]
                ELSE [shell EXCEPT ![s].pc = "force"]
    /\ UNCHANGED <<pidFile, procs, outsideScript>>

\* cmd_stop: `if ps -p "$pid" ...; then print_warning "Force stopping..."; kill -9 ...`
Force(s) ==
    /\ shell[s].pc = "force"
    /\ IF ps_p(shell[s].pid)
       THEN /\ procs' = kill_9(procs, shell[s].pid)
            /\ shell' = Goes(s, "rm", "Force stopping...")
       ELSE /\ procs' = procs
            /\ shell' = [shell EXCEPT ![s].pc = "rm"]
    /\ UNCHANGED <<pidFile, outsideScript>>

\* cmd_stop: `rm -f "$PID_FILE"` and print_success "Server stopped"
Remove(s) ==
    /\ shell[s].pc = "rm"
    /\ pidFile' = rm_f(pidFile)
    /\ shell' = Goes(s, AfterStop(s), "Server stopped")
    /\ UNCHANGED <<procs, outsideScript>>

\* cmd_status: `if is_running`
Status(s) ==
    /\ shell[s].pc = "status"
    /\ shell' = IF is_running
                THEN [Goes(s, "done", "Server is running") EXCEPT ![s].pid = get_pid]
                ELSE [shell EXCEPT ![s].pc = "stale"]
    /\ UNCHANGED <<pidFile, procs, outsideScript>>

\* a server that was sent SIGTERM exits
ServerExits(p) ==
    /\ p \in 1..Len(procs)
    /\ procs[p] = "terminating"
    /\ procs' = [procs EXCEPT ![p] = "exited"]
    /\ UNCHANGED <<pidFile, shell, outsideScript>>

\* the next command of the invocation in terminal s
ScriptStep(s) ==
    \/ StartCheck(s)
    \/ Spawn(s)
    \/ WritePid(s)
    \/ StopCheck(s)
    \/ RemoveStale(s)
    \/ GetPid(s)
    \/ Kill(s)
    \/ Wait(s)
    \/ Force(s)
    \/ Remove(s)
    \/ Status(s)

\* no PID file, or one that a server left which is gone
InitDevServer ==
    /\ NoLedger
    /\ call = NoCall
    /\ request = NoRequest
    /\ hook = NotMounted
    /\ pidFile \in {<<>>, <<StalePid>>}
    /\ procs = <<>>
    /\ shell = [s \in Shells |-> IdleShell]

\* no invocation is under way in another terminal (a foreground server may
\* be running there)
Quiet(s) == \A t \in Shells \ {s} : shell[t].pc \in {"idle", "done", "foreground"}

\* the script used from one terminal at a time
NextDevServer ==
    \/ \E s \in Shells : \E cmd \in {"start", "stop", "restart", "status"} :
          \E background \in BOOLEAN : Quiet(s) /\ Invoke(s, cmd, background)
    \/ \E s \in Shells : StartCheck(s)
    \/ \E s \in Shells : Spawn(s)
    \/ \E s \in Shells : WritePid(s)
    \/ \E s \in Shells : Interrupt(s)
    \/ \E s \in Shells : StopCheck(s)
    \/ \E s \in Shells : RemoveStale(s)
    \/ \E s \in Shells : GetPid(s)
    \/ \E s \in Shells : Kill(s)
    \/ \E s \in Shells : Wait(s)
    \/ \E s \in Shells : Force(s)
    \/ \E s \in Shells : Remove(s)
    \/ \E s \in Shells : Status(s)
    \/ \E p \in 1..MaxServers : ServerExits(p)

SpecDevServer == InitDevServer /\ [][NextDevServer]_vars

\* bash runs an invocation's commands one after the other until it returns
SpecDevServerFair ==
    InitDevServer /\ [][NextDevServer]_vars /\ \A s \in Shells : WF_vars(ScriptStep(s))

\* start --background, stop and restart typed in two terminals at once
NextDevServerRace ==
    \/ \E s \in Shells : \E cmd \in {"start", "stop", "restart"} :
          Invoke(s, cmd, cmd # "stop")
    \/ \E s \in Shells : StartCheck(s)
    \/ \E s \in Shells : Spawn(s)
    \/ \E s \in Shells : WritePid(s)
    \/ \E s \in Shells : StopCheck(s)
    \/ \E s \in Shells : RemoveStale(s)
    \/ \E s \in Shells : GetPid(s)
    \/ \E s \in Shells : Kill(s)
    \/ \E s \in Shells : Wait(s)
    \/ \E s \in Shells : Force(s)
    \/ \E s \in Shells : Remove(s)
    \/ \E p \in 1..(MaxServers + 1) : ServerExits(p)

SpecDevServerRace == InitDevServer /\ [][NextDevServerRace]_vars

(* ---------------------------- chat route ------------------------------- *)

\* the vector search returns at most this many documents
MaxDocuments == 6

\* what the ledger, the detector, the script and the hook hold
outsideChat == <<now, zone, localStorage, attemptsHeap, completedHeap, data, recorded,
                 last, call, pidFile, procs, shell, hook>>

\* the request bodies: text that is no JSON, an object without `messages`, and
\* objects whose `messages` is empty or ends with a message of the user
ChatMessages == MessagesOf(KeywordPieces, 1)

RequestBodies ==
    {[json |-> FALSE, messages |-> Undefined, useRag |-> FALSE]}
    \cup {[json |-> TRUE, messages |-> m, useRag |-> u] :
            m \in {Undefined, Some(<<>>)} \cup {Some(<<c>>) : c \in ChatMessages},
            u \in BOOLEAN}

\* what `searchResults.results || searchResults.vectors || []` can be: an array
\* of documents, an array that holds a null, or a value that is no array
SearchDocuments ==
    {[k |-> "array", length |-> n, holdsNull |-> FALSE] : n \in 0..MaxDocuments}
    \cup {[k |-> "array", length |-> 1, holdsNull |-> TRUE],
          [k |-> "object", length |-> 0, holdsNull |-> FALSE]}

NoDocuments == [k |-> "none", length |-> 0, holdsNull |-> FALSE]

\* documents.length
LengthOf(documents) == IF documents.k = "array" THEN Some(documents.length) ELSE Undefined

\* a test for an empty result that never finds one
IsEmptyNever(documents) == FALSE

\* documents.length === 0
IsEmpty(documents) == LengthOf(documents) = Some(0)

\* documents.slice(0, 5).map(...) and documents.map(...) throw a TypeError
SourcesThrow(documents) == documents.k # "array" \/ documents.holdsNull

\* sources.length after `documents.slice(0, 5).map(...)`
SourcesOf(documents) == IF documents.length < 5 THEN documents.length ELSE 5

\* messages[messages?.length - 1]?.content
latestMessage(body) ==
    IF body.messages = Some(<<>>) THEN Undefined ELSE Some(body.messages[1][1])

\* the practice instructions the system prompt gets
Instructions(practiceMode) ==
    IF ~practiceMode.isPracticeMode THEN "none"
    ELSE IF practiceMode.mode = Some("translate") THEN "translation exercise"
    ELSE "interactive practice"

\* the request goes to the catch block
Thrown == [request EXCEPT !.pc = "catch", !.thrown = TRUE]

\* `return new Response(body, {status})`
Responds(status, body) ==
    [request EXCEPT !.pc = "done", !.responses = Append(@, [status |-> status, body |-> body])]

\* a POST arrives
Receive(body) ==
    /\ request.pc \in {"none", "done"}
    /\ request' = [pc |-> "json", body |-> body, instructions |-> "none",
                   searchResponse |-> "none", documents |-> NoDocuments, sources |-> 0,
                   searches |-> 0, completions |-> 0, apiResponse |-> "none",
                   thrown |-> FALSE, responses |-> <<>>]
    /\ UNCHANGED outsideChat

\* `await req.json()`, latestMessage, detectPracticeMode(latestMessage || ''), and
\* with useRag the call of the vector search
ReadBody ==
    /\ request.pc = "json"
    /\ request' =
          IF ~request.body.json \/ request.body.messages = Undefined
          THEN Thrown
          ELSE LET message == latestMessage(request.body)
                   practiceMode ==
                       detectPracticeMode(IF message = Undefined THEN <<>> ELSE message[1]) IN
               IF request.body.useRag
               THEN [request EXCEPT !.pc = "search", !.searches = @ + 1,
                                    !.instructions = Instructions(practiceMode)]
               ELSE [request EXCEPT !.pc = "prompt",
                                    !.instructions = Instructions(practiceMode)]
    /\ UNCHANGED outsideChat

\* the promise of the search settles: a response that is ok or not, or a
\* rejection (the service cannot be reached)
SearchSettles(outcome) ==
    /\ request.pc = "search"
    /\ request' =
          IF outcome = "rejected" THEN Thrown
          ELSE [request EXCEPT !.searchResponse = outcome,
                               !.pc = IF outcome = "ok" THEN "results" ELSE "unavailable"]
    /\ UNCHANGED outsideChat

\* `if (!searchResponse.ok)`: `await searchResponse.text()`, which may reject, and
\* the 503
Unavailable(read) ==
    /\ request.pc = "unavailable"
    /\ request' = IF read THEN Responds(503, "NVC knowledge base temporarily unavailable")
                  ELSE Thrown
    /\ UNCHANGED outsideChat

\* `await searchResponse.json()`, which may reject, `documents`, the fixed text
\* for an empty result, `sources` and `docContext`
Results(parsed, documents) ==
    /\ request.pc = "results"
    /\ request' =
          IF ~parsed THEN Thrown
          ELSE IF IsEmpty(documents)
          THEN [Responds(200, "I couldn't find specific NVC content")
                   EXCEPT !.documents = documents]
          ELSE IF SourcesThrow(documents)
          THEN [Thrown EXCEPT !.documents = documents]
          ELSE [request EXCEPT !.pc = "prompt", !.documents = documents,
                               !.sources = SourcesOf(documents)]
    /\ UNCHANGED outsideChat

\* the prompts are put together and the completion provider is called
Complete ==
    /\ request.pc = "prompt"
    /\ request' = [request EXCEPT !.pc = "completion", !.completions = @ + 1]
    /\ UNCHANGED outsideChat

\* the promise of the completion settles: a response that is ok or not, or a
\* rejection (the provider cannot be reached, or the abort after 30 seconds)
CompletionSettles(outcome) ==
    /\ request.pc = "completion"
    /\ request' =
          IF outcome = "ok"
          THEN [request EXCEPT !.pc = "content", !.apiResponse = outcome]
          ELSE [Thrown EXCEPT !.apiResponse = outcome]
    /\ UNCHANGED outsideChat

\* `await apiResponse.json()` and `data.choices[0]`, either of which may throw,
\* the sources appended, and the response
Content(read) ==
    /\ request.pc = "content"
    /\ request' =
          IF ~read THEN Thrown
          ELSE Responds(200, IF request.body.useRag /\ request.sources > 0
                             THEN "content and sources" ELSE "content")
    /\ UNCHANGED outsideChat

\* the catch block
Catch ==
    /\ request.pc = "catch"
    /\ request' = Responds(500, "error")
    /\ UNCHANGED outsideChat

\* a step of the handler, or of a promise it awaits
ChatStep ==
    \/ ReadBody
    \/ \E outcome \in {"ok", "notOk", "rejected"} : SearchSettles(outcome)
    \/ \E read \in BOOLEAN : Unavailable(read)
    \/ \E parsed \in BOOLEAN : \E documents \in SearchDocuments : Results(parsed, documents)
    \/ Complete
    \/ \E outcome \in {"ok", "notOk", "rejected"} : CompletionSettles(outcome)
    \/ \E read \in BOOLEAN : Content(read)
    \/ Catch

InitChat ==
    /\ NoLedger
    /\ call = NoCall
    /\ NoScript
    /\ hook = NotMounted
    /\ request = NoRequest

NextChat ==
    \/ \E body \in RequestBodies : Receive(body)
    \/ ChatStep

\* the event loop runs the handler on, and the promises it awaits settle
SpecChat == InitChat /\ [][NextChat]_vars /\ WF_vars(ChatStep)

(* --------------------------- useProgress hook -------------------------- *)

\* the hook's actions are called at most this many times
MaxRefreshes == 4

\* the instance `useState(() => createProgressTracker())` holds
HookTracker == 1

\* a refresh() that leaves updateTrigger as it is
refreshNot(updateTrigger) == updateTrigger

\* refresh(): setUpdateTrigger(prev => prev + 1)
refresh(updateTrigger) == updateTrigger + 1

\* the render after the state h was set: the four useMemo values are computed
\* anew from the tracker when updateTrigger differs from the one they were
\* computed with, and kept otherwise
Rendered(h) ==
    IF h.updateTrigger = h.deps
    THEN h
    ELSE [h EXCEPT !.deps = h.updateTrigger,
                   !.stats = getStats(HookTracker)',
                   !.attempts = getAttempts(HookTracker)',
                   !.completedScenarios = getCompletedScenarios(HookTracker)',
                   !.streak = getStreak(HookTracker)']

\* an action of the hook may be called: the component is mounted and its
\* effects have run
Usable ==
    /\ hook.mounted
    /\ hook.effects = "done"
    /\ hook.updateTrigger < MaxRefreshes

\* the component mounts: the tracker is created, isEnabled is false,
\* updateTrigger 0, and the first render computes the four values
Mount ==
    /\ ~hook.mounted
    /\ createProgressTracker(HookTracker)
    /\ hook' = [mounted |-> TRUE, effects |-> "pending", isEnabled |-> FALSE,
                updateTrigger |-> 0, deps |-> 0,
                stats |-> getStats(HookTracker)',
                attempts |-> getAttempts(HookTracker)',
                completedScenarios |-> getCompletedScenarios(HookTracker)',
                streak |-> getStreak(HookTracker)']

\* useEffect(() => { setIsEnabled(tracker.isEnabled()) }, [tracker])
MountEffect ==
    /\ hook.mounted
    /\ hook.effects = "pending"
    /\ hook' = [hook EXCEPT !.effects = "done", !.isEnabled = isEnabled(HookTracker)]
    /\ UNCHANGED <<now, zone, localStorage, attemptsHeap, completedHeap, data, recorded,
                   last, outsideLedger>>

\* enable
UseEnable ==
    /\ Usable
    /\ enable(HookTracker)
    /\ hook' = Rendered([hook EXCEPT !.isEnabled = TRUE,
                                     !.updateTrigger = refresh(@)])

\* disable
UseDisable(clearData) ==
    /\ Usable
    /\ disable(HookTracker, clearData)
    /\ hook' = Rendered([hook EXCEPT !.isEnabled = FALSE,
                                     !.updateTrigger = refresh(@)])

\* recordAttempt
UseRecordAttempt(input, rnd) ==
    /\ Usable
    /\ recordAttempt(HookTracker, input, rnd)
    /\ hook' = Rendered([hook EXCEPT !.updateTrigger = refresh(@)])

\* importData
UseImportData(text) ==
    /\ Usable
    /\ importData(HookTracker, text)
    /\ hook' = Rendered([hook EXCEPT !.isEnabled = isEnabled(HookTracker)',
                                     !.updateTrigger = refresh(@)])

\* one component that uses the hook
NextHook ==
    \/ Mount
    \/ MountEffect
    \/ UseEnable
    \/ \E clearData \in BOOLEAN : UseDisable(clearData)
    \/ \E input \in Inputs, rnd \in RandomSuffixes : UseRecordAttempt(input, rnd)
    \/ \E text \in ImportTexts : UseImportData(text)
    \/ Tick

SpecHook == InitNoDst /\ [][NextHook]_vars

(* ------------------------ vocabulary of the claims --------------------- *)

\* the UTC day number of instant t
Day(t) == t \div HoursPerDay

\* tracker i exists and the step into the primed state is the call `op` on it
Called(op, i) == last'.op = op /\ last'.t = i /\ data[i].k = "object"

\* the attempts of the record held in the store (none when nothing parseable
\* is stored)
StoredAttempts(ls) == IF LoadsStored(ls) THEN ParsedAttempts(ls.item) ELSE <<>>

\* the days on which the attempts of a sequence were recorded
AttemptDays(attempts) == {Day(attempts[k].timestamp) : k \in 1..Len(attempts)}

\* the number of consecutive days ending at day d that all lie in `days`
RECURSIVE RunEndingAt(_, _)
RunEndingAt(days, d) == IF d \in days THEN 1 + RunEndingAt(days, d - 1) ELSE 0

\* the record a tracker holds, by value
Held(i) == Stringify(data[i], attemptsHeap, completedHeap).v

\* the default record as the source writes it
PristineDefault ==
    [enabled |-> FALSE, attempts |-> <<>>, completedScenarios |-> <<>>,
     streakDays |-> 0, lastPracticeDate |-> Null, totalPracticeTime |-> 0]

(* -------------------------------- claims ------------------------------- *)

\* C1: recordAttempt called while enabled = false changes nothing: the record in
\* memory (attempts, completedScenarios, streakDays, lastPracticeDate, enabled)
\* and the store slot are what they were before the call.
C1_DisabledRecordIsNoOp ==
    [][\A i \in Trackers :
          (Called("recordAttempt", i) /\ ~data[i].enabled)
          => UNCHANGED <<data, attemptsHeap, completedHeap, localStorage>>]_vars

\* a recordAttempt on a disabled tracker that holds attempts has returned
C1_Witness ==
    /\ last.op = "recordAttempt"
    /\ ~last.pre.enabled
    /\ last.input.completed
    /\ data[last.t].k = "object"
    /\ Len(getAttempts(last.t)) > 0

\* C2: after disable({clearData: true}) getAttempts() and
\* getCompletedScenarios() are empty and getStreak() is 0, whatever came before.
C2_ClearedIsEmpty ==
    (last.op = "disable" /\ last.clearData)
    => /\ getAttempts(last.t) = <<>>
       /\ getCompletedScenarios(last.t) = <<>>
       /\ getStreak(last.t) = 0

\* C3: a ledger constructed when the slot is missing or unparseable starts with
\* the all-default record, and DEFAULT_PROGRESS_DATA keeps its value.
C3_FreshLedgerIsDefault ==
    /\ (last.op = "create" /\ ~LoadsStored(localStorage))
       => Held(last.t) = PristineDefault
    /\ DefaultJson(attemptsHeap, completedHeap) = PristineDefault

\* C4: when enable(), disable(), a recordAttempt() run while enabled or a
\* successful importData() returns, the store slot (where localStorage exists)
\* holds the serialization of the record in memory, and a ledger constructed
\* from the store reports the same isEnabled, getAttempts,
\* getCompletedScenarios and getStreak.
C4_StoreHoldsRecord ==
    (/\ localStorage.defined
     /\ \/ last.op \in {"enable", "disable"}
        \/ last.op = "recordAttempt" /\ last.pre.enabled
        \/ last.op = "importData" /\ Parses(last.text))
    => /\ localStorage.item = exportData(last.t)
       /\ LoadsStored(localStorage)
       /\ LET fresh == loadData(localStorage, last.t)
              stored == localStorage.item.v IN
            /\ fresh.enabled = isEnabled(last.t)
            /\ fresh.streakDays = getStreak(last.t)
            /\ stored.attempts = getAttempts(last.t)
            /\ stored.completedScenarios = getCompletedScenarios(last.t)

\* a recordAttempt run while enabled has written a record with attempts
C4_Witness ==
    /\ last.op = "recordAttempt"
    /\ last.pre.enabled
    /\ localStorage.defined
    /\ localStorage.item.t = "json"
    /\ Len(localStorage.item.v.attempts) = 2

\* C5: when lastPracticeDate is the current date, a recordAttempt run while
\* enabled leaves streakDays and lastPracticeDate unchanged; and every
\* recordAttempt run while enabled leaves lastPracticeDate at the current date,
\* so that further attempts of that day find it there: the attempts of one
\* calendar day change the streak at most once.
C5_SameDayKeepsStreak ==
    [][\A i \in Trackers :
          (Called("recordAttempt", i) /\ data[i].enabled)
          => /\ data'[i].lastPracticeDate = getToday(now)
             /\ data[i].lastPracticeDate = getToday(now)
                => /\ data'[i].streakDays = data[i].streakDays
                   /\ data'[i].lastPracticeDate = data[i].lastPracticeDate]_vars

\* a second attempt was recorded on a day that already counted, with a streak
\* above 1
C5_Witness ==
    /\ last.op = "recordAttempt"
    /\ last.pre.enabled
    /\ last.pre.lastPracticeDate = getToday(now)
    /\ last.pre.streakDays > 1
    /\ Len(getAttempts(last.t)) > 0
    /\ getStreak(last.t) = last.pre.streakDays

\* C6: when lastPracticeDate is exactly one calendar day before the current
\* date, a recordAttempt run while enabled increases streakDays by exactly 1 and
\* sets lastPracticeDate to the current date.
C6_NextDayIncrements ==
    [][\A i \in Trackers :
          (/\ Called("recordAttempt", i)
           /\ data[i].enabled
           /\ data[i].lastPracticeDate # Null
           /\ DayOf(data[i].lastPracticeDate) = Day(now) - 1)
          => /\ data'[i].streakDays = data[i].streakDays + 1
             /\ data'[i].lastPracticeDate = getToday(now)]_vars

\* C7: when lastPracticeDate is two or more calendar days before the current
\* date, or after it, a recordAttempt run while enabled sets streakDays to 1 and
\* lastPracticeDate to the current date.
C7_GapResets ==
    [][\A i \in Trackers :
          (/\ Called("recordAttempt", i)
           /\ data[i].enabled
           /\ data[i].lastPracticeDate # Null
           /\ \/ DayOf(data[i].lastPracticeDate) <= Day(now) - 2
              \/ DayOf(data[i].lastPracticeDate) > Day(now))
          => /\ data'[i].streakDays = 1
             /\ data'[i].lastPracticeDate = getToday(now)]_vars

\* C8: when lastPracticeDate is unset, a recordAttempt run while enabled sets
\* streakDays to 1 and lastPracticeDate to the current date, whether or not the
\* attempt is completed.
C8_FirstAttemptStartsStreak ==
    [][\A i \in Trackers :
          (/\ Called("recordAttempt", i)
           /\ data[i].enabled
           /\ data[i].lastPracticeDate = Null)
          => /\ data'[i].streakDays = 1
             /\ data'[i].lastPracticeDate = getToday(now)]_vars

\* a first attempt that was not completed has started the streak
C8_Witness ==
    /\ last.op = "recordAttempt"
    /\ last.pre.enabled
    /\ last.pre.lastPracticeDate = Null
    /\ ~last.input.completed
    /\ getStreak(last.t) = 1
    /\ data[last.t].lastPracticeDate = getToday(now)

\* C9: if lastPracticeDate is set, getStreak() is the number of consecutive
\* days ending at lastPracticeDate on each of which an attempt of getAttempts()
\* was recorded.
C9_StreakCountsConsecutiveDays ==
    \A i \in Trackers :
        (data[i].k = "object" /\ data[i].lastPracticeDate # Null)
        => getStreak(i) =
             RunEndingAt(AttemptDays(getAttempts(i)), DayOf(data[i].lastPracticeDate))

\* the stored record gains an attempt in this step
StoreGainsAttempt ==
    LET old == StoredAttempts(localStorage)
        new == StoredAttempts(localStorage') IN
    \/ Len(new) > Len(old)
    \/ \E k \in 1..Len(new) : ~Includes(old, new[k])

\* C10 as claimed: in every step, of any operation, that adds an attempt to the
\* stored record, enabled was true before the step.
C10_StoredOnlyUnderConsent ==
    [][\A i \in Trackers :
          (last'.t = i /\ data[i].k = "object" /\ StoreGainsAttempt)
          => data[i].enabled]_vars

\* C10 as amended: in every recordAttempt step that adds an attempt to the
\* stored record, enabled was true before the step.
C10_RecordStoresOnlyUnderConsent ==
    [][\A i \in Trackers :
          (Called("recordAttempt", i) /\ StoreGainsAttempt) => data[i].enabled]_vars

\* a recordAttempt under consent has put its attempt into the stored record
C10_Witness ==
    /\ last.op = "recordAttempt"
    /\ last.pre.enabled
    /\ LoadsStored(localStorage)
    /\ \E k \in 1..Len(StoredAttempts(localStorage)) :
          /\ StoredAttempts(localStorage)[k].timestamp = now
          /\ StoredAttempts(localStorage)[k].scenarioId = last.input.scenarioId

\* C11: importData of text that does not parse leaves the record in memory and
\* the store slot as they were, and returns without throwing.
C11_BadImportChangesNothing ==
    [][\A i \in Trackers :
          (Called("importData", i) /\ last'.text = Garbage)
          => /\ UNCHANGED <<data, attemptsHeap, completedHeap, localStorage>>
             /\ ~last'.raised]_vars

\* importData of unparseable text has returned on a ledger that holds attempts
\* and has a record in the store
C11_Witness ==
    /\ last.op = "importData"
    /\ last.text = Garbage
    /\ ~last.raised
    /\ data[last.t].k = "object"
    /\ Len(getAttempts(last.t)) > 0
    /\ LoadsStored(localStorage)

\* C12: no call of a ledger operation throws: the last call returned normally,
\* and on every constructed ledger each operation, called now, returns normally
\* (whatever text was imported or found in the store before).
C12_NoOperationRaises ==
    /\ ~last.raised
    /\ \A i \in Trackers :
          Made(i) => \A op \in Operations : ~Throws(op, data[i])

\* C13: importData of the serialization of a record replaces the record held
\* whole: exportData() afterwards is that serialization (same attempts in the
\* same order, same completedScenarios, streakDays, lastPracticeDate, enabled),
\* whatever was held before; and importData(exportData()) leaves the record as
\* it was.
C13_ImportExportRoundTrip ==
    [][\A i \in Trackers :
          (Called("importData", i) /\ last'.text.t = "json")
          => /\ Stringify(data'[i], attemptsHeap', completedHeap') = last'.text
             /\ last'.text = exportData(i)
                => Stringify(data'[i], attemptsHeap', completedHeap').v = Held(i)]_vars

\* a progress file was imported into an enabled ledger that had recorded
\* attempts of its own, and the ledger now exports exactly the file
C13_Witness ==
    /\ last.op = "importData"
    /\ last.text = ImportedDisabled
    /\ last.pre.enabled
    /\ recorded > 0
    /\ exportData(last.t) = ImportedDisabled

\* every scenarioId of `completed` has a completed attempt in `attempts`
Backed(attempts, completed) ==
    \A k \in 1..Len(completed) :
        \E j \in 1..Len(attempts) :
            attempts[j].scenarioId = completed[k] /\ attempts[j].completed

\* the text, if it is a record, is one whose completedScenarios are backed
BackedText(text) == text.t = "json" => Backed(text.v.attempts, text.v.completedScenarios)

\* C14 as claimed: in every reachable state, every scenarioId in
\* completedScenarios has an attempt with that scenarioId and completed = true.
C14_CompletedIsBacked ==
    \A i \in Trackers :
        data[i].k = "object" => Backed(getAttempts(i), getCompletedScenarios(i))

\* C14 as amended: the property is kept by every operation, provided an
\* imported or stored record has it itself: if it holds of DEFAULT_PROGRESS_DATA
\* and of every ledger before a step, and the step is not an importData or a
\* construction whose text lacks it, it holds of them after the step.
C14_OperationsKeepCompletedBacked ==
    [][(/\ Backed(attemptsHeap[DefaultOwner], completedHeap[DefaultOwner])
        /\ C14_CompletedIsBacked
        /\ last'.op = "importData" => BackedText(last'.text)
        /\ (last'.op = "create" /\ LoadsStored(localStorage)) => BackedText(localStorage.item))
       => /\ Backed(attemptsHeap'[DefaultOwner], completedHeap'[DefaultOwner])
          /\ C14_CompletedIsBacked']_vars

\* a completed attempt was recorded on a ledger that already listed another
\* completed scenario, and both are backed by attempts
C14_Witness ==
    /\ last.op = "recordAttempt"
    /\ last.pre.enabled
    /\ last.input.completed
    /\ Len(getCompletedScenarios(last.t)) = 2
    /\ Backed(getAttempts(last.t), getCompletedScenarios(last.t))

\* the scenario ids that occur in the inputs and the progress files
ScenarioIds == {input.scenarioId : input \in Inputs} \cup {OldAttempt.scenarioId}

\* x occurs in seq
Lists(seq, x) == \E k \in 1..Len(seq) : seq[k] = x

\* some attempt of `attempts` for scenario s has completed = true
CompletedIn(attempts, s) ==
    \E j \in 1..Len(attempts) : attempts[j].scenarioId = s /\ attempts[j].completed

\* C15: a recordAttempt run while enabled leaves completedScenarios as it was
\* with the scenarioId appended if completed = true and it was not listed, and
\* unchanged otherwise; and on a ledger that still works on the default record
\* (no importData since it was constructed from it) isScenarioCompleted(s) is
\* true exactly when getAttempts() has an attempt for s with completed = true.
C15_RecordListsCompletedOnce ==
    [][\A i \in Trackers :
          /\ (Called("recordAttempt", i) /\ data[i].enabled)
             => LET old == getCompletedScenarios(i)
                    new == completedHeap'[data'[i].completedScenarios]
                    s == last'.input.scenarioId IN
                IF last'.input.completed /\ ~Lists(old, s)
                THEN new = old \o <<s>>
                ELSE new = old
          /\ (data'[i].k = "object" /\ data'[i].attempts = DefaultOwner)
             => \A s \in ScenarioIds :
                    isScenarioCompleted(i, s)'
                    <=> CompletedIn(attemptsHeap'[data'[i].attempts], s)]_vars

\* a scenario was completed twice on a ledger working on the default record,
\* and is listed once
C15_Witness ==
    /\ last.op = "recordAttempt"
    /\ last.pre.enabled
    /\ last.input.completed
    /\ data[last.t].k = "object"
    /\ data[last.t].attempts = DefaultOwner
    /\ Len(getAttempts(last.t)) = 2
    /\ \A j \in 1..2 : getAttempts(last.t)[j].completed
    /\ getCompletedScenarios(last.t) = <<last.input.scenarioId>>

\* no element occurs twice in seq
NoDuplicates(seq) == \A j, k \in 1..Len(seq) : j # k => seq[j] # seq[k]

\* the text, if it is a record, lists no completed scenario twice
DistinctText(text) == text.t = "json" => NoDuplicates(text.v.completedScenarios)

\* C16 as claimed: in every reachable state completedScenarios holds no
\* scenarioId twice.
C16_CompletedHasNoDuplicates ==
    \A i \in Trackers :
        data[i].k = "object" => NoDuplicates(getCompletedScenarios(i))

\* C16 as amended: no operation puts a scenarioId into completedScenarios a
\* second time, provided an imported or stored record has none twice itself: if
\* DEFAULT_PROGRESS_DATA and every ledger are free of duplicates before a step,
\* and the step is not an importData or a construction whose text has one, they
\* are free of duplicates after the step.
C16_OperationsAddNoDuplicate ==
    [][(/\ NoDuplicates(completedHeap[DefaultOwner])
        /\ C16_CompletedHasNoDuplicates
        /\ last'.op = "importData" => DistinctText(last'.text)
        /\ (last'.op = "create" /\ LoadsStored(localStorage))
           => DistinctText(localStorage.item))
       => /\ NoDuplicates(completedHeap'[DefaultOwner])
          /\ C16_CompletedHasNoDuplicates']_vars

\* a ledger loaded from the store has recorded the same completed scenario
\* twice, and lists it once beside the stored one
C16_Witness ==
    /\ last.op = "recordAttempt"
    /\ last.pre.enabled
    /\ last.input.completed
    /\ data[last.t].k = "object"
    /\ data[last.t].attempts = last.t
    /\ Len(getAttempts(last.t)) = 3
    /\ getCompletedScenarios(last.t) = <<OldAttempt.scenarioId, last.input.scenarioId>>

\* C17: in every reachable state no two attempts of a ledger's attempts
\* sequence have the same id, attempts recorded at the same clock reading
\* included.
C17_AttemptIdsAreUnique ==
    \A i \in Trackers :
        data[i].k = "object"
        => \A j, k \in 1..Len(getAttempts(i)) :
               j # k => getAttempts(i)[j].id # getAttempts(i)[k].id

\* p is an initial part of q
IsPrefix(p, q) == Len(p) <= Len(q) /\ \A k \in 1..Len(p) : q[k] = p[k]

\* attempt a carries the fields of input
Carries(a, input) ==
    /\ a.scenarioId = input.scenarioId
    /\ a.mode = input.mode
    /\ a.completed = input.completed
    /\ a.focusComponent = input.focusComponent
    /\ a.difficulty = input.difficulty
    /\ a.rating = input.rating

\* C18: across every step of a ledger other than disable({clearData: true})
\* and importData, the attempts sequence before is an initial part of the one
\* after; it grows only in a recordAttempt run while enabled, and such a step
\* appends exactly one attempt, which carries the input's scenarioId, mode,
\* completed and optional fields.
C18_AttemptsOnlyAppended ==
    [][\A i \in Trackers :
          (/\ data[i].k = "object"
           /\ data'[i].k = "object"
           /\ last'.op # "importData"
           /\ ~(last'.op = "disable" /\ last'.clearData))
          => LET old == getAttempts(i)
                 new == attemptsHeap'[data'[i].attempts] IN
             /\ IsPrefix(old, new)
             /\ Len(new) > Len(old)
                => Called("recordAttempt", i) /\ data[i].enabled
             /\ (Called("recordAttempt", i) /\ data[i].enabled)
                => /\ Len(new) = Len(old) + 1
                   /\ Carries(new[Len(new)], last'.input)
                   /\ new[Len(new)].timestamp = now]_vars

\* a rated, uncompleted attempt was appended behind the attempt the ledger
\* had loaded from the store
C18_Witness ==
    /\ last.op = "recordAttempt"
    /\ last.pre.enabled
    /\ last.input.rating = Some(4)
    /\ data[last.t].k = "object"
    /\ Len(getAttempts(last.t)) = 2
    /\ getAttempts(last.t)[1] = OldAttempt
    /\ Carries(getAttempts(last.t)[2], last.input)

\* the step before this one was the call `op` on tracker i
Preceded(op, i) == last.op = op /\ last.t = i /\ ~last.clearData

\* C19: disable() without clearData sets enabled to false and changes nothing
\* else: attempts, completedScenarios, streakDays and lastPracticeDate are as
\* before; a disable() that follows a disable() changes neither the record nor
\* the store; and an enable() that follows leaves the same attempts,
\* completedScenarios, streakDays and lastPracticeDate to be read.
C19_DisableKeepsData ==
    [][\A i \in Trackers :
          /\ (Called("disable", i) /\ ~last'.clearData)
             => /\ data'[i] = [data[i] EXCEPT !.enabled = FALSE]
                /\ UNCHANGED <<attemptsHeap, completedHeap>>
                /\ Preceded("disable", i) => UNCHANGED <<data, localStorage>>
          /\ (Called("enable", i) /\ Preceded("disable", i))
             => /\ isEnabled(i)'
                /\ getAttempts(i)' = getAttempts(i)
                /\ getCompletedScenarios(i)' = getCompletedScenarios(i)
                /\ getStreak(i)' = getStreak(i)
                /\ data'[i].lastPracticeDate = data[i].lastPracticeDate]_vars

\* disable() has switched off a ledger that holds attempts and a streak, and
\* they are still there
C19_Witness ==
    /\ last.op = "disable"
    /\ ~last.clearData
    /\ last.pre.enabled
    /\ data[last.t].k = "object"
    /\ ~isEnabled(last.t)
    /\ data[last.t].attempts = last.t
    /\ Len(getAttempts(last.t)) = 2
    /\ getStreak(last.t) = 2

\* C20: enable() sets enabled to true and changes nothing else of the record,
\* and an enable() that follows an enable() changes neither the record nor the
\* store.
C20_EnableIsIdempotent ==
    [][\A i \in Trackers :
          Called("enable", i)
          => /\ data'[i] = [data[i] EXCEPT !.enabled = TRUE]
             /\ UNCHANGED <<attemptsHeap, completedHeap>>
             /\ Preceded("enable", i) => UNCHANGED <<data, localStorage>>]_vars

\* enable() has switched on a ledger that holds an attempt and a streak
C20_Witness ==
    /\ last.op = "enable"
    /\ ~last.pre.enabled
    /\ data[last.t].k = "object"
    /\ isEnabled(last.t)
    /\ Len(getAttempts(last.t)) > 0
    /\ getStreak(last.t) > 0
    /\ LoadsStored(localStorage)
    /\ localStorage.item.v.enabled

(* C21: two instances over one store race with last-writer-wins: whenever an
   instance has just completed a mutating operation (enable, disable, a
   recordAttempt under consent, an importData of text that parses), the store
   holds that instance's full record, and no attempt the OTHER instance
   recorded since both were constructed is in the store. *)
Mutated(i) ==
    /\ last.t = i
    /\ \/ last.op \in {"enable", "disable"}
       \/ last.op = "recordAttempt" /\ last.pre.enabled
       \/ last.op = "importData" /\ Parses(last.text)

RecordedBy(a, j) == a.id[3] = InstanceSuffix(j)

C21_StoreIsLastWritersAlone ==
    \A i \in Trackers :
        localStorage.defined /\ Mutated(i) =>
            /\ localStorage.item = exportData(i)
            /\ \A j \in Trackers \ {i} :
                   \A k \in 1..Len(localStorage.item.v.attempts) :
                       ~RecordedBy(localStorage.item.v.attempts[k], j)

(* C22: callers cannot change ledger state through a returned value: a step in
   which a caller changes the array that getAttempts() or
   getCompletedScenarios() returned, or a field of an attempt inside it, leaves
   what the ledger's queries return, the record it would persist, and the
   store as they were. *)
C22_ReturnedValuesAreCopies ==
    [][\A i \in Trackers :
          /\ last'.op \in {"mutateReturnedArray", "mutateReturnedAttempt"}
          /\ last'.t = i
          => /\ getAttempts(i)' = getAttempts(i)
             /\ getCompletedScenarios(i)' = getCompletedScenarios(i)
             /\ exportData(i)' = exportData(i)
             /\ localStorage' = localStorage]_vars

(* C23: getStats().completionRate is completedAttempts / totalAttempts * 100
   rounded to the nearest integer, 0 when there are no attempts, and between 0
   and 100; completedAttempts is at most totalAttempts, which is the length of
   the attempts sequence. *)
Abs(x) == IF x < 0 THEN 0 - x ELSE x

C23_CompletionRate ==
    \A i \in Trackers : data[i].k = "object" =>
        LET s == getStats(i)
            n == Len(getAttempts(i))
            c == Cardinality({k \in 1..n : getAttempts(i)[k].completed}) IN
        /\ s.totalAttempts = n
        /\ s.completedAttempts = c
        /\ s.completedAttempts <= s.totalAttempts
        /\ s.completionRate \in 0..100
        /\ n = 0 => s.completionRate = 0
        /\ n > 0 => 2 * Abs(s.completionRate * n - 100 * c) <= n

\* two of three attempts completed: the rate is 67
C23_Witness ==
    /\ data[1].k = "object"
    /\ getStats(1).totalAttempts = 3
    /\ getStats(1).completedAttempts = 2
    /\ getStats(1).completionRate = 67

(* C24: getStats().averageRating (in tenths) is the mean of rating over exactly
   the attempts whose rating is present, rounded to one decimal place, and 0
   when no attempt has a rating; an attempt whose rating is absent (omitted, or
   null in imported or stored data) does not enter the mean. *)
HasRating(a) == Len(a.rating) = 1

C24_AverageRating ==
    \A i \in Trackers : data[i].k = "object" =>
        LET rated == SelectSeq(getAttempts(i), HasRating)
            mean == getStats(i).averageRating IN
        /\ Len(rated) = 0 => mean = 0
        /\ Len(rated) > 0 => 2 * Abs(mean * Len(rated) - 10 * SumRatings(rated)) <= Len(rated)

(* C25: getAttemptsForScenario(s) returns exactly the attempts whose scenarioId
   equals s, in the order they have in the attempts sequence (its m-th element
   is the m-th attempt of the sequence with that scenarioId), and none for an
   id never recorded. *)
AskedScenarioIds == {"s1", "s2", "s9"}

C25_AttemptsForScenario ==
    \A i \in Trackers : data[i].k = "object" =>
        \A s \in AskedScenarioIds :
            LET all == getAttempts(i)
                r == getAttemptsForScenario(i, s)
                hits == {k \in 1..Len(all) : all[k].scenarioId = s}
                Nth(m) == CHOOSE k \in hits : Cardinality({j \in hits : j <= k}) = m IN
            /\ Len(r) = Cardinality(hits)
            /\ \A m \in 1..Len(r) : r[m] = all[Nth(m)]
            /\ hits = {} => r = <<>>

\* an attempt for s2, then two different attempts for s1: the query for s1
\* returns the two, the earlier one first, and the query for s9 returns none
C25_Witness ==
    /\ data[1].k = "object"
    /\ Len(getAttempts(1)) = 3
    /\ getAttempts(1)[1].scenarioId = "s2"
    /\ getAttempts(1)[2] # getAttempts(1)[3]
    /\ getAttemptsForScenario(1, "s1") = <<getAttempts(1)[2], getAttempts(1)[3]>>
    /\ getAttemptsForScenario(1, "s9") = <<>>

(* C26: for every message that contains none of practice, scenario, translate,
   transform (whatever the case of its letters), detectPracticeMode returns
   isPracticeMode = false with mode, focusComponent, difficulty and
   conversationMode absent; and in every result those four are absent whenever
   isPracticeMode is false. *)
Detected == call.fn = "detectPracticeMode" /\ call.returned

AllAbsent(r) ==
    /\ r.mode = Undefined
    /\ r.focusComponent = Undefined
    /\ r.difficulty = Undefined
    /\ r.conversationMode = Undefined

C26_NoKeywordNoPractice ==
    Detected =>
        LET str == toLowerCase(call.message) IN
        /\ (\A w \in {Practice, Scenario, Translate, Transform} : ~includes(str, w))
               => ~call.result.isPracticeMode /\ AllAbsent(call.result)
        /\ ~call.result.isPracticeMode => AllAbsent(call.result)

\* a message that names two components, or a difficulty and a conversation
\* mode, and none of the four keywords
C26_Witness ==
    /\ Detected
    /\ call.message \in {<<" ">> \o Feeling \o <<"s">> \o <<" ">> \o Need,
                         <<" ">> \o Beginner \o <<" ">> \o Quick}
    /\ ~call.result.isPracticeMode
    /\ AllAbsent(call.result)

(* C27: for a detected practice request, mode is translate exactly when the
   message contains translate or transform (also when practice or scenario is
   there too), and practice otherwise. *)
C27_TranslateWins ==
    Detected /\ call.result.isPracticeMode =>
        LET str == toLowerCase(call.message) IN
        IF includes(str, Translate) \/ includes(str, Transform)
        THEN call.result.mode = Some("translate")
        ELSE call.result.mode = Some("practice")

\* a message with both practice (capital P) and transform
C27_Witness ==
    /\ Detected
    /\ call.message = <<" ", "P">> \o Tail(Practice) \o <<" ", "T">> \o Tail(Transform)
    /\ call.result.mode = Some("translate")

(* C28: for a detected practice request, focusComponent is the first of
   observations, feelings, needs, requests whose singular or plural word form
   (observation(s), feeling(s), need(s), request(s)) occurs in the message
   delimited by word boundaries, and is unset when none occurs as such a
   word. *)
OccursAsWord(str, w) ==
    \E p \in 0..Len(str) :
        \/ MatchesAt(str, w, p) /\ WordBoundary(str, p) /\ WordBoundary(str, p + Len(w))
        \/ /\ MatchesAt(str, w \o <<"s">>, p)
           /\ WordBoundary(str, p)
           /\ WordBoundary(str, p + Len(w) + 1)

WordOf(component) ==
    CASE component = "observations" -> Observation
      [] component = "feelings" -> Feeling
      [] component = "needs" -> Need
      [] component = "requests" -> Request

C28_FocusIsFirstWholeWord ==
    Detected /\ call.result.isPracticeMode =>
        LET str == toLowerCase(call.message)
            named == {k \in 1..Len(Components) : OccursAsWord(str, WordOf(Components[k]))} IN
        IF named = {}
        THEN call.result.focusComponent = Undefined
        ELSE \E k \in named :
                 /\ \A j \in named : k <= j
                 /\ call.result.focusComponent = Some(Components[k])

(* C29: for a detected practice request, difficulty is the first of beginner,
   intermediate, advanced (in that order) that the message contains, and is
   unset when it contains none. *)
Difficulties == <<"beginner", "intermediate", "advanced">>
DifficultyWords == <<Beginner, Intermediate, Advanced>>

C29_DifficultyByPriority ==
    Detected /\ call.result.isPracticeMode =>
        LET str == toLowerCase(call.message)
            named == {k \in 1..3 : includes(str, DifficultyWords[k])} IN
        /\ named = {} => call.result.difficulty = Undefined
        /\ \A k \in named :
               (\A j \in named : k <= j) => call.result.difficulty = Some(Difficulties[k])

\* "advanced" before "beginner" in the message: the difficulty is beginner
C29_Witness ==
    /\ Detected
    /\ call.message = <<" ", "P">> \o Tail(Practice) \o <<" ">> \o Advanced \o <<" ">> \o Beginner
    /\ call.result.difficulty = Some("beginner")

(* C30: filterScenarios returns a record iff, for every criterion that is
   present in the filter (difficulty, focusComponent, conversationMode), the
   record's difficulty, focus_component or mode equals the criterion's value
   exactly; a criterion that is present is never ignored. *)
Filtered == call.fn = "filterScenarios" /\ call.returned

MeetsPresent(scenario, filter) ==
    /\ filter.difficulty # Undefined => Some(scenario.difficulty) = filter.difficulty
    /\ filter.focusComponent # Undefined => Some(scenario.focus_component) = filter.focusComponent
    /\ filter.conversationMode # Undefined => Some(scenario.mode) = filter.conversationMode

C30_FilterByPresentCriteria ==
    Filtered =>
        call.result = SelectSeq(call.scenarios, LAMBDA scenario : MeetsPresent(scenario, call.filter))

(* C31: filterScenarios returns a subsequence of its input in the input's
   order, leaves the input as it was, and with no criterion given returns all
   the input records. *)
RECURSIVE IsSubsequence(_, _)
IsSubsequence(r, l) ==
    IF r = <<>> THEN TRUE
    ELSE IF l = <<>> THEN FALSE
    ELSE IF Head(r) = Head(l) THEN IsSubsequence(Tail(r), Tail(l))
    ELSE IsSubsequence(r, Tail(l))

NoCriteria ==
    [difficulty |-> Undefined, focusComponent |-> Undefined, conversationMode |-> Undefined]

C31_FilterKeepsOrderAndInput ==
    [][call.fn = "filterScenarios" /\ ~call.returned /\ call'.returned =>
          /\ call'.scenarios = call.scenarios
          /\ IsSubsequence(call'.result, call.scenarios)
          /\ call.filter = NoCriteria => call'.result = call.scenarios]_vars

\* three scenarios of which the first and the third are for beginners: the
\* filter for beginners returns these two, the first one first
C31_Witness ==
    /\ Filtered
    /\ Len(call.scenarios) = 3
    /\ call.scenarios[1].title = "Beginner Observations"
    /\ call.scenarios[2].title = "Advanced Conflict"
    /\ call.scenarios[3].title = "Beginner Full OFNR"
    /\ call.filter = [NoCriteria EXCEPT !.difficulty = Some("beginner")]
    /\ call.result = <<call.scenarios[1], call.scenarios[3]>>

(* C35: ledger instances do not share state in memory: a recordAttempt on one
   instance never changes what getAttempts(), getCompletedScenarios() or
   getStats() return on another instance that is already constructed, also
   when both started from the default record. *)
C35_InstancesShareNothing ==
    [][\A i \in Trackers : \A j \in Trackers \ {i} :
          last'.op = "recordAttempt" /\ last'.t = j /\ data[i].k = "object"
          => /\ getAttempts(i)' = getAttempts(i)
             /\ getCompletedScenarios(i)' = getCompletedScenarios(i)
             /\ getStats(i)' = getStats(i)]_vars

(* C36 (as stated): after every recordAttempt that runs while enabled,
   lastPracticeDate equals the current date and getStreak() is at least 1,
   whatever record the instance held before, loaded and imported ones
   included. *)
C36_RecordingStartsOrKeepsAStreak ==
    [][\A i \in Trackers :
          Called("recordAttempt", i) /\ Records(data[i])
          => /\ data'[i].lastPracticeDate = getToday(now)
             /\ getStreak(i)' >= 1]_vars

\* the streak of record d fits its lastPracticeDate at instant t in zone z
StreakFitsDate(z, t, d) ==
    \/ d.lastPracticeDate = Null
    \/ /\ isToday(t, d.lastPracticeDate) => d.streakDays >= 1
       /\ isYesterday(z, t, d.lastPracticeDate) => d.streakDays >= 0

(* C36 (amended): after every recordAttempt that runs while enabled,
   lastPracticeDate equals the current UTC date; getStreak() is at least 1
   when the streak of the record before the call fits its lastPracticeDate
   (at least 1 if that is today, at least 0 if that is yesterday), as it does
   in every record the ledger has written itself. *)
C36_RecordingDatesTodayAndKeepsAFittingStreak ==
    [][\A i \in Trackers :
          Called("recordAttempt", i) /\ Records(data[i])
          => /\ data'[i].lastPracticeDate = getToday(now)
             /\ StreakFitsDate(zone, now, data[i]) => getStreak(i)' >= 1]_vars

\* an attempt was recorded on the day an imported streak of 5 ended, and one
\* the day after: the streak stayed 5, then became 6
C36_Witness ==
    /\ last.op = "recordAttempt" /\ last.pre.enabled
    /\ last.pre.streakDays = 5 /\ last.pre.lastPracticeDate = ISODate(HoursPerDay)
    /\ data[1].lastPracticeDate = ISODate(now)
    /\ \/ now \div HoursPerDay = 1 /\ getStreak(1) = 5
       \/ now \div HoursPerDay = 2 /\ getStreak(1) = 6

\* `start` in terminal s goes past its `if is_running` and reports that the
\* server is already running: it returns without a new process, PID file as it was
SaysAlreadyRunning(s) ==
    /\ shell'[s].pc = "done"
    /\ shell'[s].out = <<"Server is already running">>
    /\ shell'[s].code = 0
    /\ procs' = procs
    /\ pidFile' = pidFile

(* C32 (as stated): dev-server start, when a server the script started is
   running, reports 'already running', starts no second server process and
   leaves the PID file unchanged. *)
C32_StartWhenRunning ==
    [][\A s \in Shells :
          shell[s].cmd = "start" /\ shell[s].pc = "start" /\ shell'[s].pc # "start"
          /\ (\E p \in 1..Len(procs) : Alive(p))
          => SaysAlreadyRunning(s)]_vars

(* C32 (amended): dev-server start, when the PID file names a live process
   (a server started with --background is running), reports 'already running',
   starts no second server process and leaves the PID file unchanged. *)
C32_StartWhenPidFileNamesLiveServer ==
    [][\A s \in Shells :
          shell[s].cmd = "start" /\ shell[s].pc = "start" /\ shell'[s].pc # "start"
          /\ pidFile # <<>> /\ Alive(pidFile[1])
          => SaysAlreadyRunning(s)]_vars

\* start was typed while the server started with `start --background` ran, and
\* has returned: one process, the PID file names it
C32_Witness ==
    \E s \in Shells :
        /\ shell[s].cmd = "start" /\ shell[s].pc = "done"
        /\ shell[s].out = <<"Server is already running">>
        /\ shell[s].pid = <<1>>
        /\ pidFile = <<1>> /\ procs = <<"running">>

(* C33: when dev-server stop returns, the PID file does not exist and the
   process it named is not running any more, whether that process exited
   after SIGTERM within the 10 seconds of waiting or was force-killed; and
   every stop returns. *)
C33_StopLeavesNothingAndReturns ==
    /\ [][\A s \in Shells :
             shell[s].cmd = "stop" /\ shell[s].pc # "done" /\ shell'[s].pc = "done"
             => /\ pidFile' = <<>>
                /\ \A pid \in {shell[s].pid, pidFile} : pid = <<>> \/ ~Alive(pid[1])']_vars
    /\ \A s \in Shells :
          (shell[s].cmd = "stop" /\ shell[s].pc # "done") ~> (shell[s].pc = "done")

\* two stops have returned: the one in terminal 1 waited its 10 seconds and
\* force-killed the server, the one in terminal 2 saw the server exit on SIGTERM
C33_Witness ==
    /\ shell[1].cmd = "stop" /\ shell[1].pc = "done" /\ shell[1].count = MaxWait
    /\ shell[1].out = <<"Stopping server", "Force stopping...", "Server stopped">>
    /\ shell[2].cmd = "stop" /\ shell[2].pc = "done" /\ shell[2].count < MaxWait
    /\ shell[2].out = <<"Stopping server", "Server stopped">>
    /\ shell[1].pid # shell[2].pid
    /\ procs = <<"exited", "exited">>
    /\ pidFile = <<>>

(* C34: dev-server status and stop report 'not running' whenever the PID file
   is missing or names a process that is not alive, and then leave no PID
   file behind. *)
C34_NotRunningIsReportedAndCleaned ==
    [][\A s \in Shells :
          shell[s].cmd \in {"status", "stop"} =>
          /\ shell[s].pc \in {"status", "stop"} /\ shell'[s].pc # shell[s].pc
             /\ (pidFile = <<>> \/ ~Alive(pidFile[1]))
             => shell'[s].pc = "stale"
          /\ shell[s].pc = "stale" /\ shell'[s].pc # "stale"
             => /\ shell'[s].pc = "done"
                /\ shell'[s].out = <<"Server is not running">>
                /\ pidFile' = <<>>]_vars

\* with no server running, status in terminal 1 and stop in terminal 2 have
\* both said so; status returned 1, stop 0, and there is no PID file
C34_Witness ==
    /\ shell[1].cmd = "status" /\ shell[1].pc = "done" /\ shell[1].code = 1
    /\ shell[1].out = <<"Server is not running">>
    /\ shell[2].cmd = "stop" /\ shell[2].pc = "done" /\ shell[2].code = 0
    /\ shell[2].out = <<"Server is not running">>
    /\ \A p \in 1..Len(procs) : ~Alive(p)
    /\ pidFile = <<>>

\* the live servers that were started in the background
BackgroundServers ==
    {p \in 1..Len(procs) :
        Alive(p) /\ \A s \in Shells : ~(shell[s].pc = "foreground" /\ shell[s].pid = <<p>>)}

(* C37: at most one background dev server started by the script is alive at
   any time, and the PID file, when present, names it (looked at when no
   invocation is under way), under any interleaving of concurrent
   start --background, stop and restart invocations. *)
C37_OneBackgroundServerNamedByPidFile ==
    /\ Cardinality(BackgroundServers) <= 1
    /\ (\A s \in Shells : shell[s].pc \in {"idle", "done"})
       /\ pidFile # <<>> /\ BackgroundServers # {}
       => pidFile[1] \in BackgroundServers

(* C38: in the chat POST handler with useRag on, the completion provider is
   called only after the vector search succeeded with at least one document;
   a failed search ends the request with a 503 and an empty result ends it
   with the fixed 200 text, each without a completion call; every request
   ends with exactly one response, a 500 when an error was thrown. *)
C38_CompletionOnlyAfterDocuments ==
    /\ [][/\ request'.pc = "completion" /\ request.pc # "completion" /\ request.body.useRag
             => /\ request.searchResponse = "ok"
                /\ request.documents.k = "array" /\ request.documents.length >= 1
          /\ request'.pc = "done" /\ request.pc # "done" /\ request.body.useRag
             => LET response == request'.responses[1] IN
                /\ request.searchResponse = "notOk"
                   => /\ request'.completions = 0
                      /\ response.status = IF request'.thrown THEN 500 ELSE 503
                /\ request.searchResponse = "ok" /\ request'.documents.k = "array"
                   /\ request'.documents.length = 0
                   => /\ request'.completions = 0
                      /\ response = [status |-> 200,
                                     body |-> "I couldn't find specific NVC content"]
          /\ request'.pc = "done" /\ request.pc # "done"
             => /\ Len(request'.responses) = 1
                /\ request'.thrown <=> request'.responses[1].status = 500
          /\ request.pc \notin {"none", "done"} /\ request'.pc # "done"
             => request'.responses = <<>>]_vars
    /\ request.pc \notin {"none", "done"} ~> request.pc = "done"

\* a request with useRag on has been answered from five sources out of six
\* documents, after one search and one completion call
C38_Witness ==
    /\ request.pc = "done" /\ request.body.useRag
    /\ request.searchResponse = "ok" /\ request.documents.length = 6
    /\ request.searches = 1 /\ request.completions = 1 /\ request.sources = 5
    /\ request.responses = <<[status |-> 200, body |-> "content and sources"]>>
    /\ request.instructions = "translation exercise"

(* C39: after every useProgress action (enable, disable, recordAttempt,
   importData) has completed, the hook's isEnabled equals isEnabled() of its
   ledger, and the attempts, completedScenarios, streak and stats it exposes
   are those computed from the ledger's current record. *)
C39_HookShowsItsLedger ==
    [][Usable /\ last'.op \in {"enable", "disable", "recordAttempt", "importData"}
       => /\ hook'.deps = hook'.updateTrigger /\ hook'.deps # hook.deps
          /\ hook'.isEnabled = isEnabled(HookTracker)'
          /\ hook'.attempts = getAttempts(HookTracker)'
          /\ hook'.completedScenarios = getCompletedScenarios(HookTracker)'
          /\ hook'.streak = getStreak(HookTracker)'
          /\ hook'.stats = getStats(HookTracker)']_vars

\* the hook's recordAttempt has completed on a ledger that held an attempt of
\* an earlier session: the hook shows two attempts and tracking enabled
C39_Witness ==
    /\ hook.mounted /\ hook.updateTrigger >= 1
    /\ last.op = "recordAttempt"
    /\ hook.isEnabled
    /\ Len(hook.attempts) = 2 /\ hook.attempts = getAttempts(HookTracker)
    /\ hook.stats.totalAttempts = 2
    /\ hook.streak >= 1

====
